---------------------------- MODULE Spec2Model ----------------------------
(***************************************************************************)
(* Focus stacking of the world microscope: the merge engine                *)
(* (services/vision: computeSharpnessMap, mergeFocusStack), the alignment  *)
(* estimator (alignFrames) and the fingerprint similarity of the same      *)
(* file, the FocusStack component that owns the accumulator                *)
(* (performStacking and the resets), and the parent with its depth         *)
(* counters and its handling of the frames of the capture loop.            *)
(*                                                                         *)
(* Representation.                                                         *)
(*  - An ImageData is [width, height, data]; data is the row-major         *)
(*    sequence of pixels <<r, g, b, a>>, so that the byte data[i*4 + c] of *)
(*    the source is data[i + 1][c + 1] here.                               *)
(*  - A sharpness value is the Float32 sqrt(gh*gh + gv*gv) of the source.  *)
(*    It is represented by its square gh*gh + gv*gv, an integer, and every *)
(*    comparison the source makes on magnitudes is made exactly on the     *)
(*    squares (IsSharp, Exceeds).  NaN is the value a read past the end of *)
(*    a buffer yields once it enters the arithmetic.                       *)
(*  - An offset is a number of 1/OffsetDen pixels.                         *)
(***************************************************************************)
EXTENDS Integers, Sequences, FiniteSets, TLC

VARIABLES
    accumulatorRef,     \* FocusStack: accumulatorRef.current, NoAcc or [pixels, sharpness]
    currentImageData,   \* App: the frame last delivered by the capture loop, or NoFrame
    sensitivity,        \* FocusStack: merge sensitivity slider
    threshold,          \* FocusStack: mask threshold slider
    debugMode,          \* FocusStack: debug flag
    currentDepth,       \* App: depth counter
    maxDepth,           \* App: largest depth reached
    isProcessing,       \* FocusStack: PROCESSING indicator
    offsetDisplay,      \* FocusStack: offset shown in the overlay
    lastImageDataRef,   \* App: lastImageDataRef.current, the frame handled before, or NoFrame
    stagePosRef,        \* App: stagePosRef.current, <<x, y>> (stagePosition is set to the same)
    frameRequested,     \* MicroscopeView: a call of processFrame is requested
    relativeOffset,     \* App: the offset of the last pair of frames, <<x, y>>
    isAnalyzing,        \* App: a frame is with the classifier
    analysisPending,    \* App: handleFrameCapture waits for analyzeMicroscopeFrame
    lastAnalysis,       \* App: the entity found last, or NoEntity
    analysisHistory,    \* App: the number of entities kept in the history
    stack,              \* history: what the last performStacking did
    call,               \* an invocation of a function of services/vision: arguments, then result
    twin                \* two runs of the merge engine that differ in the debug flag only

vars == <<accumulatorRef, currentImageData, sensitivity, threshold, debugMode,
          currentDepth, maxDepth, isProcessing, offsetDisplay,
          lastImageDataRef, stagePosRef, frameRequested, relativeOffset,
          isAnalyzing, analysisPending, lastAnalysis, analysisHistory, stack, call, twin>>

\* the state of the classification
classifier == <<isAnalyzing, analysisPending, lastAnalysis, analysisHistory>>

---------------------------------------------------------------------------
(* Bounds of the model *)

\* offsets are multiples of 1/OffsetDen pixel
OffsetDen == 2
\* offsets handed to the merge engine range over -MaxOffset..MaxOffset of these units
MaxOffset == 2
\* the parent's depth counter is followed up to this many layers
MaxLayers == 2
\* the two-run comparison follows this many successive merges
MaxMerges == 2
\* the stage position is followed while |x| and |y| are at most MaxStage units of
\* 1/OffsetDen pixel (the alignments of the model are of whole pixels: it stays at the
\* origin)
MaxStage == 1
\* the tracking loop is followed while |x| and |y| of the stage are at most MaxTrack pixels
MaxTrack == 1
\* the entities kept in the history (50 in the source), counted up to HistoryLimit
HistoryLimit == 2

\* frame sizes <<width, height>> of the capture loop: the smallest with an interior
\* pixel, and one more
Sizes == {<<3, 3>>, <<4, 3>>}
\* frame sizes of the merge engine's inputs
MergeSizes == {<<4, 3>>}

\* accumulatorRef.current = null, and a frame not yet delivered
NoAcc == [absent |-> TRUE]
NoFrame == [absent |-> TRUE]
\* lastAnalysis = null
NoEntity == [absent |-> TRUE]

\* the value of an arithmetic expression over a read past the end of a buffer
NaN == -1

Magenta == <<255, 0, 255, 255>>

\* Math.abs
Abs(v) == IF v >= 0 THEN v ELSE -v

---------------------------------------------------------------------------
(* services/vision: the sharpness mapper *)

\* pixels[i * 4] : the red channel of pixel i, undefined (NaN in arithmetic) past the end
RedAt(data, i) == IF i >= 0 /\ i < Len(data) THEN data[i + 1][1] ELSE NaN

\* data[i * 4 + c - 1] stored into a Uint8ClampedArray: undefined is stored as 0
ChannelAt(data, i, c) == IF i >= 0 /\ i < Len(data) THEN data[i + 1][c] ELSE 0

\* map[i] of a Float32Array: undefined (NaN in a comparison) past the end
SharpAt(map, i) == IF i >= 0 /\ i < Len(map) THEN map[i + 1] ELSE NaN

\* Math.abs(a - b)
AbsDiff(a, b) ==
    IF a = NaN \/ b = NaN THEN NaN ELSE IF a >= b THEN a - b ELSE b - a

\* Math.sqrt(gh * gh + gv * gv), as its square
Magnitude(gh, gv) ==
    IF gh = NaN \/ gv = NaN THEN NaN ELSE gh * gh + gv * gv

\* variant: the loops run over the border as well
Interior_All(x, y, width, height) == x >= 0 /\ y >= 0

Interior(x, y, width, height) ==
    x >= 1 /\ x < width - 1 /\ y >= 1 /\ y < height - 1

computeSharpnessMap(pixels, width, height) ==
    [i \in 1..(width * height) |->
        LET x == (i - 1) % width
            y == (i - 1) \div width
        IN  IF Interior(x, y, width, height)
            THEN Magnitude(AbsDiff(RedAt(pixels, i - 2), RedAt(pixels, i)),
                           AbsDiff(RedAt(pixels, i - 1 - width),
                                   RedAt(pixels, i - 1 + width)))
            ELSE 0]

---------------------------------------------------------------------------
(* services/vision: the focus-stack merge engine *)

\* Math.round(x + offset): the nearest integer, a tie going up
Round(x, offset) == (2 * (x * OffsetDen + offset) + OffsetDen) \div (2 * OffsetDen)

\* variant: only the upper bounds are tested
InBounds_NoLower(srcX, srcY, width, height) ==
    srcX < width /\ srcY < height

\* srcX >= 0 && srcX < width && srcY >= 0 && srcY < height
InBounds(srcX, srcY, width, height) ==
    srcX >= 0 /\ srcX < width /\ srcY >= 0 /\ srcY < height

\* val > threshold, for a threshold that is an integer (the slider's values)
IsSharp(val, thr) ==
    val # NaN /\ (thr < 0 \/ val > thr * thr)

\* newVal > oldVal + sensitivity, for an integer sensitivity >= 0:
\* sqrt(n) > sqrt(o) + s  iff  n - o - s*s > 2*s*sqrt(o).  Beyond d = 46340 the square
\* of d is past 2^31 and above every 4*s*s*o (s <= 50, o <= 2 * 255 * 255): it is not
\* formed.
Exceeds(newVal, oldVal, sens) ==
    /\ newVal # NaN
    /\ oldVal # NaN
    /\ LET d == newVal - oldVal - sens * sens
       IN  d > 0 /\ (d > 46340 \/ d * d > 4 * sens * sens * oldVal)

\* variant: the test that the new pixel is sharp is missing
NewWins_NoNewSharpTest(newVal, oldVal, sens, thr) ==
    Exceeds(newVal, oldVal, sens) \/ ~IsSharp(oldVal, thr)

\* variant: a new pixel only ever replaces a sharp old one
NewWins_OverSharpOnly(newVal, oldVal, sens, thr) ==
    IsSharp(newVal, thr) /\ IsSharp(oldVal, thr) /\ Exceeds(newVal, oldVal, sens)

\* variant: a sharp new pixel always replaces the old one
NewWins_WheneverSharp(newVal, oldVal, sens, thr) == IsSharp(newVal, thr)

\* isNewSharp && (newVal > (oldVal + sensitivity) || !isOldSharp)
NewWins(newVal, oldVal, sens, thr) ==
    IsSharp(newVal, thr) /\ (Exceeds(newVal, oldVal, sens) \/ ~IsSharp(oldVal, thr))

\* variant: the new pixel's own alpha is copied
TakeNew_CopyAlpha(newImageData, srcIdx, newVal, debug) ==
    << IF debug
       THEN Magenta
       ELSE << ChannelAt(newImageData.data, srcIdx, 1),
               ChannelAt(newImageData.data, srcIdx, 2),
               ChannelAt(newImageData.data, srcIdx, 3),
               ChannelAt(newImageData.data, srcIdx, 4) >>,
       newVal >>

\* variant: the debug branch leaves before the sharpness is written
TakeNew_DebugSkipsSharpness(newImageData, srcIdx, newVal, debug) ==
    IF debug
    THEN << Magenta, 0 >>
    ELSE << << ChannelAt(newImageData.data, srcIdx, 1),
               ChannelAt(newImageData.data, srcIdx, 2),
               ChannelAt(newImageData.data, srcIdx, 3),
               255 >>,
            newVal >>

\* "Take New Pixel": the pixel and the sharpness written when the new pixel wins
TakeNew(newImageData, srcIdx, newVal, debug) ==
    << IF debug
       THEN Magenta
       ELSE << ChannelAt(newImageData.data, srcIdx, 1),
               ChannelAt(newImageData.data, srcIdx, 2),
               ChannelAt(newImageData.data, srcIdx, 3),
               255 >>,
       newVal >>

\* variant: the alpha is cleared and the sharpness entry is left as it was
ForceTransparent_KeepSharpness(oldPixel, oldVal) == << [oldPixel EXCEPT ![4] = 0], oldVal >>

\* variant: the sharpness entry is cleared and the pixel is left as it was
ForceTransparent_KeepAlpha(oldPixel, oldVal) == << oldPixel, 0 >>

\* "Neither is sharp, force transparent"
ForceTransparent(oldPixel, oldVal) == << [oldPixel EXCEPT ![4] = 0], 0 >>

\* variant: the kept pixel is painted pink whatever the debug flag
KeepOld_AlwaysPink(oldPixel, oldVal, debug) == << Magenta, oldVal >>

\* variant: the kept pixel is never painted
KeepOld_NeverPink(oldPixel, oldVal, debug) == << oldPixel, oldVal >>

\* "Old is sharp, keep it", pink in debug mode
KeepOld(oldPixel, oldVal, debug) ==
    << IF debug THEN Magenta ELSE oldPixel, oldVal >>

\* one iteration of the loop over (x, y): the pixel and the sharpness left at targetIdx
MergeCell(accImageData, accSharpness, newImageData, newSharpness, targetIdx, offsetX, offsetY, sens, thr, debug) ==
    LET width == accImageData.width
        height == accImageData.height
        x == targetIdx % width
        y == targetIdx \div width
        srcX == Round(x, offsetX)
        srcY == Round(y, offsetY)
        srcIdx == srcY * width + srcX
        oldPixel == accImageData.data[targetIdx + 1]
        oldVal == accSharpness[targetIdx + 1]
    IN  IF InBounds(srcX, srcY, width, height)
        THEN LET newVal == SharpAt(newSharpness, srcIdx)
             IN  IF NewWins(newVal, oldVal, sens, thr)
                 THEN TakeNew(newImageData, srcIdx, newVal, debug)
                 ELSE IF ~IsSharp(oldVal, thr)
                      THEN ForceTransparent(oldPixel, oldVal)
                      ELSE KeepOld(oldPixel, oldVal, debug)
        ELSE << oldPixel, oldVal >>

mergeFocusStack(accImageData, accSharpness, newImageData, offsetX, offsetY, sens, thr, debug) ==
    LET width == accImageData.width
        height == accImageData.height
        len == width * height
        \* (concatenation with <<>> makes a sequence explicit, so that it is computed once)
        newSharpness == <<>> \o computeSharpnessMap(newImageData.data, width, height)
        cells == <<>> \o [t \in 1..len |->
                    MergeCell(accImageData, accSharpness, newImageData, newSharpness,
                              t - 1, offsetX, offsetY, sens, thr, debug)]
    IN  [imageData |-> [width |-> width, height |-> height,
                        data |-> [t \in 1..len |-> cells[t][1]]],
         sharpness |-> [t \in 1..len |-> cells[t][2]]]

---------------------------------------------------------------------------
(* services/vision: the alignment estimator.                               *)
(*                                                                         *)
(* SETTINGS.SEARCH_WINDOW is 40 and SETTINGS.ALIGNMENT_DOWNSAMPLE is 128   *)
(* in the source, which leaves 2 * 42 columns of padding and 44 scored     *)
(* columns; the search is followed here on a smaller window with the same  *)
(* layout.  A fraction is [num, den] in lowest terms with den > 0.  A      *)
(* score is a sum of squares of differences of edge magnitudes; NaN and    *)
(* Infinity stand for the two non-finite values it can take.               *)

SEARCH_WINDOW == 2
\* width - 2 * padding: the columns of the scored region
ScoredSpan == 3
ALIGNMENT_DOWNSAMPLE == 2 * (SEARCH_WINDOW + 2) + ScoredSpan

\* SETTINGS.CROP_RATIO = 0.6 and SETTINGS.DRIFT_DEADBAND = 0.8, as fractions
CropRatioNum == 3
CropRatioDen == 5
DeadbandNum == 4
DeadbandDen == 5

\* let minDiff = Infinity
Infinity == -2

Finite(v) == v # NaN /\ v # Infinity

RECURSIVE Gcd(_, _)
Gcd(a, b) == IF b = 0 THEN a ELSE Gcd(b, a % b)

Frac(n, d) ==
    LET g == Gcd(Abs(n), Abs(d))
        sgn == IF d < 0 THEN -1 ELSE 1
    IN  [num |-> sgn * (n \div g), den |-> sgn * (d \div g)]

FracInt(n) == [num |-> n, den |-> 1]

FracMul(a, b) == Frac(a.num * b.num, a.den * b.den)

RECURSIVE FracCmp(_, _, _, _)
\* -1, 0 or 1 as a/b is less than, equal to or greater than c/d, for a, c >= 0 and
\* b, d > 0; by continued fractions, so that no product is formed
FracCmp(a, b, c, d) ==
    IF a \div b # c \div d THEN (IF a \div b < c \div d THEN -1 ELSE 1)
    ELSE IF a % b = 0 \/ c % d = 0
         THEN (IF a % b = c % d THEN 0 ELSE IF a % b = 0 THEN -1 ELSE 1)
         ELSE FracCmp(d, c % d, b, a % b)

\* the largest integer whose square is at most n
ISqrt(n) == CHOOSE r \in 0..n : r * r <= n /\ (r + 1) * (r + 1) > n

\* gray[i] = 0.299 R + 0.587 G + 0.114 B, stored into a Uint8Array
toGrayscale(data) ==
    [i \in 1..Len(data.data) |->
        (299 * data.data[i][1] + 587 * data.data[i][2] + 114 * data.data[i][3]) \div 1000]

\* the 3x3 mean of the interior pixels, stored into a Uint8Array; the border stays 0
fastBlur(pixels, width, height) ==
    [i \in 1..Len(pixels) |->
        LET x == (i - 1) % width
            y == (i - 1) \div width
        IN  IF x >= 1 /\ x < width - 1 /\ y >= 1 /\ y < height - 1
            THEN (pixels[i - width - 1] + pixels[i - width] + pixels[i - width + 1]
                  + pixels[i - 1] + pixels[i] + pixels[i + 1]
                  + pixels[i + width - 1] + pixels[i + width] + pixels[i + width + 1]) \div 9
            ELSE 0]

\* Math.sqrt(gx*gx + gy*gy): exact where the sum is a square
EdgeMagnitude(gx, gy) == ISqrt(gx * gx + gy * gy)

\* the Sobel magnitude of the interior pixels; the border stays 0
computeEdgeMap(pixels, width, height) ==
    [i \in 1..(width * height) |->
        LET x == (i - 1) % width
            y == (i - 1) \div width
        IN  IF x >= 1 /\ x < width - 1 /\ y >= 1 /\ y < height - 1
            THEN EdgeMagnitude(
                   (pixels[i - width + 1] - pixels[i - width - 1])
                     + 2 * (pixels[i + 1] - pixels[i - 1])
                     + (pixels[i + width + 1] - pixels[i + width - 1]),
                   (pixels[i + width - 1] + 2 * pixels[i + width] + pixels[i + width + 1])
                     - (pixels[i - width - 1] + 2 * pixels[i - width]
                        + pixels[i - width + 1]))
            ELSE 0]

\* edges[idx] of a Float32Array: undefined (NaN in the arithmetic) past the end
EdgeAt(edges, idx) == IF idx >= 0 /\ idx < Len(edges) THEN edges[idx + 1] ELSE NaN

\* the positions padding, padding + 2, ... below limit - padding, in order
ScoredPositions(limit) ==
    LET padding == SEARCH_WINDOW + 2
        span == limit - 2 * padding
        n == IF span > 0 THEN (span + 1) \div 2 ELSE 0
    IN  [k \in 1..n |-> padding + 2 * (k - 1)]

RECURSIVE SumOfSquares(_)
\* diff += d * d over the differences d
SumOfSquares(ds) ==
    IF ds = <<>> THEN 0
    ELSE LET rest == SumOfSquares(Tail(ds))
         IN  IF Head(ds) = NaN \/ rest = NaN THEN NaN ELSE Head(ds) * Head(ds) + rest

\* diff of the offset (dx, dy)
ScoreOf(edgePrev, edgeCurr, width, height, dx, dy) ==
    LET xs == ScoredPositions(width)
        ys == ScoredPositions(height)
        d(x, y) ==
            LET val1 == EdgeAt(edgePrev, y * width + x)
                val2 == EdgeAt(edgeCurr, (y + dy) * width + (x + dx))
            IN  IF val1 = NaN \/ val2 = NaN THEN NaN
                ELSE IF val1 >= val2 THEN val1 - val2 ELSE val2 - val1
    IN  SumOfSquares([k \in 1..(Len(xs) * Len(ys)) |->
                        d(xs[((k - 1) % Len(xs)) + 1], ys[((k - 1) \div Len(xs)) + 1])])

\* the offsets in the order of the two loops: dy outside, dx inside
ScanOrder ==
    LET n == 2 * SEARCH_WINDOW + 1
    IN  [k \in 1..(n * n) |->
            << ((k - 1) % n) - SEARCH_WINDOW, ((k - 1) \div n) - SEARCH_WINDOW >>]

\* variant: among the offsets of the least score, the one nearest to (0, 0) is kept
BlockSearch_NearestZero(edgePrev, edgeCurr, width, height) ==
    LET counted == Len(ScoredPositions(width)) * Len(ScoredPositions(height)) > 0
        scores == <<>> \o [k \in 1..Len(ScanOrder) |->
                     ScoreOf(edgePrev, edgeCurr, width, height,
                             ScanOrder[k][1], ScanOrder[k][2])]
        lowering == {k \in 1..Len(ScanOrder) : counted /\ scores[k] # NaN}
        dist(k) == Abs(ScanOrder[k][1]) + Abs(ScanOrder[k][2])
        best == CHOOSE k \in lowering :
                    \A j \in lowering :
                        \/ scores[k] < scores[j]
                        \/ /\ scores[k] = scores[j]
                           /\ (dist(k) < dist(j) \/ (dist(k) = dist(j) /\ k <= j))
    IN  IF lowering = {}
        THEN [bestX |-> 0, bestY |-> 0, minDiff |-> Infinity,
              counted |-> counted, scores |-> scores]
        ELSE [bestX |-> ScanOrder[best][1], bestY |-> ScanOrder[best][2],
              minDiff |-> scores[best], counted |-> counted, scores |-> scores]

\* the block search: bestX, bestY and minDiff after the loops, and the scores kept
BlockSearch(edgePrev, edgeCurr, width, height) ==
    LET counted == Len(ScoredPositions(width)) * Len(ScoredPositions(height)) > 0
        scores == <<>> \o [k \in 1..Len(ScanOrder) |->
                     ScoreOf(edgePrev, edgeCurr, width, height,
                             ScanOrder[k][1], ScanOrder[k][2])]
        \* diff < minDiff is false of a NaN
        lowering == {k \in 1..Len(ScanOrder) : counted /\ scores[k] # NaN}
        best == CHOOSE k \in lowering :
                    \A j \in lowering :
                        scores[k] < scores[j] \/ (scores[k] = scores[j] /\ k <= j)
    IN  IF lowering = {}
        THEN [bestX |-> 0, bestY |-> 0, minDiff |-> Infinity,
              counted |-> counted, scores |-> scores]
        ELSE [bestX |-> ScanOrder[best][1], bestY |-> ScanOrder[best][2],
              minDiff |-> scores[best], counted |-> counted, scores |-> scores]

\* variant: a neighbour that was not scored counts as 0
ScoreAt_MissingIsZero(search, dx, dy) ==
    IF search.counted /\ Abs(dx) <= SEARCH_WINDOW /\ Abs(dy) <= SEARCH_WINDOW
    THEN search.scores[(dy + SEARCH_WINDOW) * (2 * SEARCH_WINDOW + 1)
                       + (dx + SEARCH_WINDOW) + 1]
    ELSE 0

\* scores[`${dx},${dy}`] ?? v0
ScoreAt(search, dx, dy) ==
    IF search.counted /\ Abs(dx) <= SEARCH_WINDOW /\ Abs(dy) <= SEARCH_WINDOW
    THEN search.scores[(dy + SEARCH_WINDOW) * (2 * SEARCH_WINDOW + 1)
                       + (dx + SEARCH_WINDOW) + 1]
    ELSE search.minDiff

\* the parabolic fit along one axis: best + (vMinus - vPlus) / (2 * denom), when
\* |denom| > 1e-5 (false of a NaN; the scores are integers)
SubPixel(best, vMinus, v0, vPlus) ==
    IF Finite(vMinus) /\ Finite(v0) /\ Finite(vPlus) /\ vMinus - 2 * v0 + vPlus # 0
    THEN Frac(best * 2 * (vMinus - 2 * v0 + vPlus) + (vMinus - vPlus),
              2 * (vMinus - 2 * v0 + vPlus))
    ELSE FracInt(best)

\* Math.sqrt(finalX*finalX + finalY*finalY) < SETTINGS.DRIFT_DEADBAND
\* (finalX^2 < DRIFT_DEADBAND^2 - finalY^2)
InDeadband(finalX, finalY) ==
    LET restNum == DeadbandNum * DeadbandNum * finalY.den * finalY.den
                     - DeadbandDen * DeadbandDen * finalY.num * finalY.num
        restDen == DeadbandDen * DeadbandDen * finalY.den * finalY.den
    IN  /\ restNum > 0
        /\ FracCmp(finalX.num * finalX.num, finalX.den * finalX.den, restNum, restDen) < 0

\* variant: each component is snapped on its own
Deadband_PerAxis(finalX, finalY) ==
    << IF InDeadband(finalX, FracInt(0)) THEN FracInt(0) ELSE finalX,
       IF InDeadband(FracInt(0), finalY) THEN FracInt(0) ELSE finalY >>

\* if (dist < SETTINGS.DRIFT_DEADBAND) { finalX = 0; finalY = 0; }
Deadband(finalX, finalY) ==
    IF InDeadband(finalX, finalY) THEN << FracInt(0), FracInt(0) >>
    ELSE << finalX, finalY >>

\* variant: the Math.max(0, ...) is missing
Confidence_Unclamped(minDiff, width, height) ==
    IF minDiff = Infinity THEN [num |-> -1, den |-> 0]
    ELSE Frac(width * height * 100 - minDiff, width * height * 100)

\* variant: a search that scored nothing is taken for a perfect match
Confidence_NothingScoredIsOne(minDiff, width, height) ==
    LET area == width * height * 100
    IN  IF minDiff = Infinity THEN FracInt(1)
        ELSE IF area = 0 THEN (IF minDiff = 0 THEN [num |-> 0, den |-> 0] ELSE FracInt(0))
        ELSE IF minDiff >= area THEN FracInt(0)
        ELSE Frac(area - minDiff, area)

\* Math.max(0, 1 - (minDiff / (width * height * 100))); [0, 0] stands for a NaN
Confidence(minDiff, width, height) ==
    LET area == width * height * 100
    IN  IF minDiff = Infinity THEN FracInt(0)
        ELSE IF area = 0 THEN (IF minDiff = 0 THEN [num |-> 0, den |-> 0] ELSE FracInt(0))
        ELSE IF minDiff >= area THEN FracInt(0)
        ELSE Frac(area - minDiff, area)

\* the locals of alignFrames(prev, curr) before the deadband, where smallPrev and
\* smallCurr are what resizeAndCropImageData made of prev and curr
AlignLocals(prev, curr, smallPrev, smallCurr) ==
    LET w == ALIGNMENT_DOWNSAMPLE
        scale == Frac(prev.width * CropRatioNum, CropRatioDen * w)
        edgePrev == <<>> \o computeEdgeMap(fastBlur(toGrayscale(smallPrev), w, smallPrev.height),
                                           w, smallPrev.height)
        edgeCurr == <<>> \o computeEdgeMap(fastBlur(toGrayscale(smallCurr), w, smallCurr.height),
                                           w, smallCurr.height)
        search == BlockSearch(edgePrev, edgeCurr, w, smallPrev.height)
        v0 == search.minDiff
        subPixelX == SubPixel(search.bestX, ScoreAt(search, search.bestX - 1, search.bestY),
                              v0, ScoreAt(search, search.bestX + 1, search.bestY))
        subPixelY == SubPixel(search.bestY, ScoreAt(search, search.bestX, search.bestY - 1),
                              v0, ScoreAt(search, search.bestX, search.bestY + 1))
    IN  [bestX |-> search.bestX, bestY |-> search.bestY, minDiff |-> search.minDiff,
         finalX |-> FracMul(subPixelX, scale), finalY |-> FracMul(subPixelY, scale),
         width |-> w, height |-> smallPrev.height,
         counted |-> search.counted, scores |-> search.scores, scale |-> scale,
         edgePrev |-> Len(edgePrev), edgeCurr |-> Len(edgeCurr)]

\* what alignFrames returns, from its locals
AlignResult(locals) ==
    LET final == Deadband(locals.finalX, locals.finalY)
    IN  [x |-> final[1], y |-> final[2],
         confidence |-> Confidence(locals.minDiff, locals.width, locals.height)]

alignFrames(prev, curr, smallPrev, smallCurr) ==
    AlignResult(AlignLocals(prev, curr, smallPrev, smallCurr))

---------------------------------------------------------------------------
(* services/vision: fingerprints.  A fingerprint is a sequence of bytes;   *)
(* a similarity is a fraction, or the fraction 0 / 0 for NaN.              *)

\* the value NaN of a similarity
NaNSimilarity == [num |-> 0, den |-> 0]

\* fp[i] of a Uint8Array: undefined (NaN in arithmetic) past the end
ByteAt(fp, i) == IF i >= 0 /\ i < Len(fp) THEN fp[i + 1] ELSE NaN

\* variant: the difference keeps its sign
FingerprintTerm_Signed(a, b) == IF a = NaN \/ b = NaN THEN NaN ELSE a - b

\* Math.abs(fp1[i] - fp2[i])
FingerprintTerm(a, b) == AbsDiff(a, b)

\* diff after the iterations i, i + 1, ... of the loop over fp1; ok is FALSE when a term
\* was NaN
RECURSIVE FingerprintDiff(_, _, _)
FingerprintDiff(fp1, fp2, i) ==
    IF i >= Len(fp1)
    THEN [ok |-> TRUE, sum |-> 0]
    ELSE LET term == FingerprintTerm(ByteAt(fp1, i), ByteAt(fp2, i))
             rest == FingerprintDiff(fp1, fp2, i + 1)
         IN  IF term = NaN \/ ~rest.ok
             THEN [ok |-> FALSE, sum |-> 0]
             ELSE [ok |-> TRUE, sum |-> term + rest.sum]

\* 1 - (diff / (fp1.length * 255)); 0 / 0 is NaN
getFingerprintSimilarity(fp1, fp2) ==
    LET diff == FingerprintDiff(fp1, fp2, 0)
    IN  IF ~diff.ok \/ Len(fp1) = 0
        THEN NaNSimilarity
        ELSE Frac(Len(fp1) * 255 - diff.sum, Len(fp1) * 255)

---------------------------------------------------------------------------
(* Inputs of the model *)

component == <<accumulatorRef, currentImageData, sensitivity, threshold, debugMode,
               currentDepth, maxDepth, isProcessing, offsetDisplay,
               lastImageDataRef, stagePosRef, frameRequested, relativeOffset,
               isAnalyzing, analysisPending, lastAnalysis, analysisHistory, stack>>

\* colours of the frames handed to the merge engine; one is not opaque
Palette == << <<0, 1, 2, 255>>, <<10, 11, 12, 255>>, <<40, 41, 42, 200>> >>

\* colours of the frames the capture loop delivers (canvas pixels of a video: opaque)
CapturePalette == << <<0, 1, 2, 255>>, <<10, 11, 12, 255>>, <<40, 41, 42, 255>> >>

\* a textured frame: the colour at (x, y) is pal[(k*x + l*y + m) mod Len(pal)]
TexFrame(w, h, pal, k, l, m) ==
    [width |-> w, height |-> h,
     data |-> [i \in 1..(w * h) |->
                 pal[((k * ((i - 1) % w) + l * ((i - 1) \div w) + m) % Len(pal)) + 1]]]

\* flat frames, stripes and diagonals, in every rotation of the palette
FramesOf(w, h, pal) ==
    {TexFrame(w, h, pal, k, l, m) : k \in 0..1, l \in 0..1, m \in 0..(Len(pal) - 1)}

\* accumulator cells <<pixel, sharpness>>: empty, flat gray, faint, sharp
AccCells == << << <<0, 0, 0, 0>>, 0 >>,
               << <<128, 128, 128, 255>>, 0 >>,
               << <<20, 21, 22, 255>>, 100 >>,
               << <<90, 91, 92, 255>>, 1600 >> >>

\* an accumulator whose cell at (x, y) is AccCells[(k*x + l*y + m) mod 4]
TexAcc(w, h, k, l, m) ==
    LET cell(i) == AccCells[((k * ((i - 1) % w) + l * ((i - 1) \div w) + m)
                              % Len(AccCells)) + 1]
    IN  [pixels |-> [width |-> w, height |-> h,
                     data |-> [i \in 1..(w * h) |-> cell(i)[1]]],
         sharpness |-> [i \in 1..(w * h) |-> cell(i)[2]]]

\* uniform accumulators and diagonal ones
AccsOf(w, h) ==
    {TexAcc(w, h, k, k, m) : k \in 0..1, m \in 0..(Len(AccCells) - 1)}

Offsets == (-MaxOffset)..MaxOffset

\* slider values: merge sensitivity (1..50) and mask threshold (0..100)
Sensitivities == {1, 5}
Thresholds == {0, 20, 45}

---------------------------------------------------------------------------
(* An invocation of mergeFocusStack: its arguments, then its result *)

NoCall == [phase |-> "idle"]

Invocation(acc, new, ox, oy, sens, thr, debug) ==
    [phase |-> "args", acc |-> acc, new |-> new, offsetX |-> ox, offsetY |-> oy,
     sensitivity |-> sens, threshold |-> thr, debug |-> debug]

Returned(c) ==
    [phase |-> "returned", acc |-> c.acc, new |-> c.new,
     offsetX |-> c.offsetX, offsetY |-> c.offsetY,
     sensitivity |-> c.sensitivity, threshold |-> c.threshold, debug |-> c.debug,
     out |-> mergeFocusStack(c.acc.pixels, c.acc.sharpness, c.new,
                             c.offsetX, c.offsetY,
                             c.sensitivity, c.threshold, c.debug)]

---------------------------------------------------------------------------
(* The state of the component after mounting *)

\* path is the way the last performStacking took; aligned, whether it ran alignFrames;
\* prevDims, the size of the accumulator it found (<<0, 0>> for none); offset, accDims
\* and newDims, the offset and the sizes of the accumulator and of the frame that
\* mergeFocusStack was last called with
NoStack == [path |-> "none", aligned |-> FALSE, prevDims |-> <<0, 0>>,
            offset |-> <<0, 0>>, accDims |-> <<0, 0>>, newDims |-> <<0, 0>>]
NoTwin == [n |-> 0]

Init ==
    /\ accumulatorRef = NoAcc
    /\ currentImageData = NoFrame
    /\ sensitivity = 5
    /\ threshold = 20
    /\ debugMode = FALSE
    /\ currentDepth = 0
    /\ maxDepth = 1
    /\ isProcessing = FALSE
    /\ offsetDisplay = <<0, 0>>
    /\ lastImageDataRef = NoFrame
    /\ stagePosRef = <<0, 0>>
    /\ frameRequested = TRUE
    /\ relativeOffset = <<0, 0>>
    /\ isAnalyzing = FALSE
    /\ analysisPending = FALSE
    /\ lastAnalysis = NoEntity
    /\ analysisHistory = 0
    /\ call = NoCall
    /\ stack = NoStack
    /\ twin = NoTwin

---------------------------------------------------------------------------
(* The FocusStack component and its parent *)

\* frames of the capture loop: a diagonal texture in each size, and a flat frame and
\* a second texture in the larger
CaptureFrames ==
    {TexFrame(s[1], s[2], CapturePalette, 1, 1, 0) : s \in Sizes}
        \cup {TexFrame(4, 3, CapturePalette, k, k, 1) : k \in 0..1}

\* slider positions in the component
SliderSensitivities == {1, 5}
SliderThresholds == {0, 20}

\* what alignFrames returns: an offset and a confidence in hundredths.  A non-zero
\* offset is at least the deadband long.
AlignOutcomes ==
    { [x |-> 0, y |-> 0, confidence |-> 100],
      [x |-> OffsetDen, y |-> 0, confidence |-> 90],
      [x |-> OffsetDen, y |-> OffsetDen, confidence |-> 50],
      [x |-> 101 * OffsetDen, y |-> 0, confidence |-> 100],
      [x |-> 0, y |-> -(101 * OffsetDen), confidence |-> 100] }

Dims(image) == << image.width, image.height >>

PrevDims(acc) == IF acc = NoAcc THEN << 0, 0 >> ELSE Dims(acc.pixels)

\* whether alignment.confidence > 0.6
\* variant: a confidence of exactly 0.6 passes
Confident_Inclusive(a) == a.confidence >= 60

Confident(a) == a.confidence > 60

\* <<lastImageDataRef.current, the request of the next processFrame>> once alignFrames
\* has thrown: the exception leaves handleFrameData before its last statement, and
\* processFrame, which does not catch it, before requestAnimationFrame
AfterThrow(last, data) == << last, FALSE >>

\* the stage position after an alignment a: moved against a confident alignment
StageAfter(pos, a) ==
    IF Confident(a) THEN << pos[1] - a.x, pos[2] - a.y >> ELSE pos

\* what setRelativeOffset is called with after an alignment a
RelativeAfter(a) == IF Confident(a) THEN << a.x, a.y >> ELSE << 0, 0 >>

\* handleFrameData(data) inside processFrame, on one of its paths: "first" when there is
\* no earlier frame, "thrown" when alignFrames throws, "aligned" when it returns; pos and
\* rel are the stage position and the relative offset it leaves
Handled(data, path, pos, rel) ==
    /\ currentImageData' = data
    /\ IF path = "first"
       THEN /\ lastImageDataRef = NoFrame
            /\ lastImageDataRef' = data
            /\ frameRequested' = TRUE
            /\ UNCHANGED <<stagePosRef, relativeOffset>>
       ELSE IF path = "thrown"
       THEN /\ lastImageDataRef # NoFrame
            /\ lastImageDataRef' = AfterThrow(lastImageDataRef, data)[1]
            /\ frameRequested' = AfterThrow(lastImageDataRef, data)[2]
            /\ UNCHANGED <<stagePosRef, relativeOffset>>
       ELSE /\ lastImageDataRef # NoFrame
            /\ stagePosRef' = pos
            /\ relativeOffset' = rel
            /\ lastImageDataRef' = data
            /\ frameRequested' = TRUE

\* MicroscopeView.processFrame with a context and a video: the frame is handed to
\* App.handleFrameData and the next call is requested.  The first frame is not
\* aligned; on the others alignFrames throws or returns an a.
HandleFrameData ==
    /\ frameRequested
    /\ \E data \in CaptureFrames :
       \E t \in {<< "first", stagePosRef, relativeOffset >>,
                 << "thrown", stagePosRef, relativeOffset >>}
                  \cup {<< "aligned", StageAfter(stagePosRef, a), RelativeAfter(a) >>
                           : a \in AlignOutcomes} :
          /\ Abs(t[2][1]) <= MaxStage
          /\ Abs(t[2][2]) <= MaxStage
          /\ Handled(data, t[1], t[2], t[3])
    /\ UNCHANGED <<accumulatorRef, sensitivity, threshold, debugMode, currentDepth,
                   maxDepth, isProcessing, offsetDisplay, stack, call, twin, classifier>>

\* the sliders and the debug toggle
SetThreshold ==
    /\ \E v \in SliderThresholds : threshold' = v
    /\ UNCHANGED <<accumulatorRef, currentImageData, sensitivity, debugMode, currentDepth,
                   maxDepth, isProcessing, offsetDisplay, stack, call, twin,
                   lastImageDataRef, stagePosRef, frameRequested, relativeOffset,
                   classifier>>

SetSensitivity ==
    /\ \E v \in SliderSensitivities : sensitivity' = v
    /\ UNCHANGED <<accumulatorRef, currentImageData, threshold, debugMode, currentDepth,
                   maxDepth, isProcessing, offsetDisplay, stack, call, twin,
                   lastImageDataRef, stagePosRef, frameRequested, relativeOffset,
                   classifier>>

ToggleDebug ==
    /\ debugMode' = ~debugMode
    /\ UNCHANGED <<accumulatorRef, currentImageData, sensitivity, threshold, currentDepth,
                   maxDepth, isProcessing, offsetDisplay, stack, call, twin,
                   lastImageDataRef, stagePosRef, frameRequested, relativeOffset,
                   classifier>>

\* what App.handleReset sets
ResetApp ==
    /\ currentDepth' = 0
    /\ maxDepth' = 1
    /\ stagePosRef' = <<0, 0>>
    /\ relativeOffset' = <<0, 0>>

\* App.handleReset
HandleReset ==
    /\ ResetApp
    /\ UNCHANGED <<accumulatorRef, currentImageData, sensitivity, threshold, debugMode,
                   isProcessing, offsetDisplay, stack, call, twin,
                   lastImageDataRef, frameRequested, classifier>>

\* FocusStack.handleLocalReset (the CLEAR button)
HandleLocalReset ==
    /\ accumulatorRef' = NoAcc
    /\ offsetDisplay' = <<0, 0>>
    /\ UNCHANGED <<currentImageData, sensitivity, threshold, debugMode, currentDepth,
                   maxDepth, isProcessing, stack, call, twin,
                   lastImageDataRef, stagePosRef, frameRequested, relativeOffset,
                   classifier>>

\* FocusStack.handleFullReset (right click): handleLocalReset, then onReset
HandleFullReset ==
    /\ accumulatorRef' = NoAcc
    /\ offsetDisplay' = <<0, 0>>
    /\ ResetApp
    /\ UNCHANGED <<currentImageData, sensitivity, threshold, debugMode,
                   isProcessing, stack, call, twin,
                   lastImageDataRef, frameRequested, classifier>>

\* the blank accumulator of performStacking: transparent pixels, sharpness 0
EmptyAcc(w, h) ==
    [pixels |-> [width |-> w, height |-> h, data |-> [i \in 1..(w * h) |-> <<0, 0, 0, 0>>]],
     sharpness |-> [i \in 1..(w * h) |-> 0]]

\* variant: only the absence of the accumulator is tested
NeedsInit_NullOnly(acc, frame) == acc = NoAcc

\* variant: the widths are not compared
NeedsInit_HeightOnly(acc, frame) ==
    acc = NoAcc \/ acc.pixels.height # frame.height

\* !accumulatorRef.current || its width or height differs from the frame's
NeedsInit(acc, frame) ==
    \/ acc = NoAcc
    \/ acc.pixels.width # frame.width
    \/ acc.pixels.height # frame.height

\* variant: a confidence of exactly 0.5 passes
PoorAlignment_StrictConfidence(a) ==
    a.confidence < 50 \/ Abs(a.x) > 100 * OffsetDen \/ Abs(a.y) > 100 * OffsetDen

\* alignment.confidence <= 0.5 || |alignment.x| > 100 || |alignment.y| > 100
PoorAlignment(a) ==
    a.confidence <= 50 \/ Abs(a.x) > 100 * OffsetDen \/ Abs(a.y) > 100 * OffsetDen

\* finalX, finalY
FinalOffset(a) == IF PoorAlignment(a) THEN << 0, 0 >> ELSE << a.x, a.y >>

\* App.handleStack(newDepth)
HandleStack(newDepth) ==
    /\ currentDepth' = newDepth
    /\ maxDepth' = IF newDepth > maxDepth THEN newDepth ELSE maxDepth

\* FocusStack.performStacking (middle click).  ctx is whether getContext('2d') gave a
\* context, off the final offset made of what alignFrames returns if it is called.
PerformStacking ==
    /\ currentImageData # NoFrame
    /\ \E ctx \in BOOLEAN, off \in {FinalOffset(a) : a \in AlignOutcomes} :
        IF ~ctx
        THEN /\ isProcessing' = TRUE
             /\ stack' = [stack EXCEPT !.path = "noctx", !.aligned = FALSE,
                                        !.prevDims = PrevDims(accumulatorRef)]
             /\ UNCHANGED <<accumulatorRef, currentDepth, maxDepth, offsetDisplay>>
        ELSE IF NeedsInit(accumulatorRef, currentImageData)
        THEN LET empty == EmptyAcc(currentImageData.width, currentImageData.height)
                 result == mergeFocusStack(empty.pixels, empty.sharpness,
                                           currentImageData, 0, 0,
                                           sensitivity, threshold, debugMode)
             IN  /\ accumulatorRef' = [pixels |-> result.imageData,
                                       sharpness |-> result.sharpness]
                 /\ HandleStack(1)
                 /\ isProcessing' = FALSE
                 /\ stack' = [path |-> "init", aligned |-> FALSE,
                              prevDims |-> PrevDims(accumulatorRef), offset |-> << 0, 0 >>,
                              accDims |-> Dims(empty.pixels),
                              newDims |-> Dims(currentImageData)]
                 /\ UNCHANGED offsetDisplay
        ELSE LET result == mergeFocusStack(accumulatorRef.pixels, accumulatorRef.sharpness,
                                           currentImageData, off[1], off[2],
                                           sensitivity, threshold, debugMode)
             IN  /\ currentDepth < MaxLayers
                 /\ offsetDisplay' = off
                 /\ accumulatorRef' = [pixels |-> result.imageData,
                                       sharpness |-> result.sharpness]
                 /\ HandleStack(currentDepth + 1)
                 /\ isProcessing' = FALSE
                 /\ stack' = [path |-> "merge", aligned |-> TRUE,
                              prevDims |-> PrevDims(accumulatorRef), offset |-> off,
                              accDims |-> Dims(accumulatorRef.pixels),
                              newDims |-> Dims(currentImageData)]
    /\ UNCHANGED <<currentImageData, sensitivity, threshold, debugMode, call, twin,
                   lastImageDataRef, stagePosRef, frameRequested, relativeOffset,
                   classifier>>

Next ==
    \/ HandleFrameData
    \/ SetThreshold
    \/ SetSensitivity
    \/ ToggleDebug
    \/ HandleReset
    \/ HandleLocalReset
    \/ HandleFullReset
    \/ PerformStacking

Spec == Init /\ [][Next]_vars

---------------------------------------------------------------------------
(* App: the tracking loop and the classification of a captured frame.      *)
(* call keeps, for the tracking loop, the path of the last frame, its      *)
(* alignment, and the sum of the confident alignments since the reset.     *)

TrackFrames == {TexFrame(4, 3, CapturePalette, k, k, 1) : k \in 0..1}

\* alignments of whole pixels, of confidence 0.6 and 0.61
TrackOutcomes ==
    {[x |-> o[1] * OffsetDen, y |-> o[2] * OffsetDen, confidence |-> c] :
        o \in {<<0, 0>>, <<1, 0>>, <<0, -1>>, <<-1, 1>>}, c \in {60, 61}}

NoAlignment == [absent |-> TRUE]

SumOf(c) == IF c.phase = "tracking" THEN c.sum ELSE << 0, 0 >>

\* processFrame hands a frame to handleFrameData
TrackFrame ==
    /\ frameRequested
    /\ \E data \in TrackFrames, path \in {"first", "thrown", "aligned"}, a \in TrackOutcomes :
          LET pos == IF path = "aligned" THEN StageAfter(stagePosRef, a) ELSE stagePosRef
              rel == IF path = "aligned" THEN RelativeAfter(a) ELSE relativeOffset
              sum == SumOf(call)
          IN  /\ Abs(pos[1]) <= MaxTrack * OffsetDen
              /\ Abs(pos[2]) <= MaxTrack * OffsetDen
              /\ Handled(data, path, pos, rel)
              /\ call' = [phase |-> "tracking", path |-> path,
                          alignment |-> IF path = "aligned" THEN a ELSE NoAlignment,
                          sum |-> IF path = "aligned" /\ a.confidence > 60
                                  THEN << sum[1] + a.x, sum[2] + a.y >>
                                  ELSE sum]
    /\ UNCHANGED <<accumulatorRef, sensitivity, threshold, debugMode, currentDepth,
                   maxDepth, isProcessing, offsetDisplay, stack, twin, classifier>>

\* App.handleReset
TrackReset ==
    /\ ResetApp
    /\ call' = [phase |-> "tracking", path |-> "reset", alignment |-> NoAlignment,
                sum |-> << 0, 0 >>]
    /\ UNCHANGED <<accumulatorRef, currentImageData, sensitivity, threshold, debugMode,
                   isProcessing, offsetDisplay, stack, twin,
                   lastImageDataRef, frameRequested, classifier>>

\* what the service answers: the request is rejected, the answer has no text, its text
\* is not JSON, or it is an object without entities, with none or with one
Replies == {"rejected", "noText", "badJson", "noEntities", "empty", "entities"}

\* a response of null
NoResponse == [absent |-> TRUE]

\* services/geminiService: analyzeMicroscopeFrame, by the answer of the service: null
\* or the parsed object, of which hasEntities tells whether it has the field entities
\* and length the length of that list
analyzeMicroscopeFrame(reply) ==
    IF reply \in {"rejected", "noText", "badJson"} THEN NoResponse
    ELSE [hasEntities |-> reply # "noEntities",
          length |-> IF reply = "entities" THEN 1 ELSE 0]

\* App.handleFrameCapture up to its await (MicroscopeView.handleManualCapture calls it
\* when isAnalyzing is false)
HandleFrameCapture ==
    /\ ~isAnalyzing
    /\ isAnalyzing' = TRUE
    /\ analysisPending' = TRUE
    /\ UNCHANGED <<accumulatorRef, currentImageData, sensitivity, threshold, debugMode,
                   currentDepth, maxDepth, isProcessing, offsetDisplay, stack, call, twin,
                   lastImageDataRef, stagePosRef, frameRequested, relativeOffset,
                   lastAnalysis, analysisHistory>>

\* App.handleFrameCapture from its await on: response.entities.length throws a
\* TypeError when the response is an object without entities, and the statements
\* after it are not reached
AnalysisSettles ==
    /\ analysisPending
    /\ analysisPending' = FALSE
    /\ \E reply \in Replies :
          LET response == analyzeMicroscopeFrame(reply)
          IN  IF response = NoResponse
              THEN /\ isAnalyzing' = FALSE
                   /\ UNCHANGED <<lastAnalysis, analysisHistory>>
              ELSE IF ~response.hasEntities
              THEN UNCHANGED <<isAnalyzing, lastAnalysis, analysisHistory>>
              ELSE IF response.length > 0
              THEN /\ lastAnalysis' =
                        [coordinates |-> stagePosRef,
                         depthEstimate |-> << currentDepth,
                                              IF maxDepth = 0 THEN 1 ELSE maxDepth >>]
                   /\ analysisHistory' = IF analysisHistory < HistoryLimit
                                         THEN analysisHistory + 1 ELSE HistoryLimit
                   /\ isAnalyzing' = FALSE
              ELSE /\ isAnalyzing' = FALSE
                   /\ UNCHANGED <<lastAnalysis, analysisHistory>>
    /\ UNCHANGED <<accumulatorRef, currentImageData, sensitivity, threshold, debugMode,
                   currentDepth, maxDepth, isProcessing, offsetDisplay, stack, call, twin,
                   lastImageDataRef, stagePosRef, frameRequested, relativeOffset>>

AppNext == TrackFrame \/ TrackReset \/ HandleFrameCapture \/ AnalysisSettles

AppSpec == Init /\ [][AppNext]_vars

\* the promise of analyzeMicroscopeFrame settles: the service answers or the request
\* fails
AppLive == AppSpec /\ WF_vars(AnalysisSettles)

---------------------------------------------------------------------------
(* The merge engine applied to inputs drawn from the bounded sets *)

\* the caller hands the engine an accumulator, a frame of the same size and settings
Invoke ==
    /\ call.phase = "idle"
    /\ \E s \in MergeSizes :
       \E acc \in AccsOf(s[1], s[2]), new \in FramesOf(s[1], s[2], Palette) :
       \E ox \in Offsets, oy \in Offsets :
       \E sens \in Sensitivities, thr \in Thresholds, debug \in BOOLEAN :
          call' = Invocation(acc, new, ox, oy, sens, thr, debug)
    /\ UNCHANGED <<component, twin>>

\* the engine returns
MergeCall ==
    /\ call.phase = "args"
    /\ call' = Returned(call)
    /\ UNCHANGED <<component, twin>>

MergeNext == Invoke \/ MergeCall

MergeSpec == Init /\ [][MergeNext]_vars

---------------------------------------------------------------------------
(* The alignment estimator applied to pairs of frames.  A frame is given   *)
(* by its size and by the image that resizeAndCropImageData makes of it    *)
(* (the canvas resamples; its result is an input here).  The images are    *)
(* gray and textured along one axis, so that the edge magnitudes the       *)
(* search reads are integers, and their levels are levels whose luma the   *)
(* source computes exactly.                                                *)

\* Math.round(cropH * ratio), the height of the image made of a width x height frame
TargetHeight(width, height) ==
    (2 * ALIGNMENT_DOWNSAMPLE * height + width) \div (2 * width)

GrayImage(height, level(_, _)) ==
    [width |-> ALIGNMENT_DOWNSAMPLE, height |-> height,
     data |-> [i \in 1..(ALIGNMENT_DOWNSAMPLE * height) |->
                 LET v == level((i - 1) % ALIGNMENT_DOWNSAMPLE,
                                (i - 1) \div ALIGNMENT_DOWNSAMPLE)
                 IN  << v, v, v, 255 >>]]

Solid(height, a) ==
    LET level(x, y) == a IN GrayImage(height, level)

\* stripes two pixels wide, across x (vertical) or across y
Stripes(height, vertical, a, b, phase) ==
    LET level(x, y) ==
            IF (((IF vertical THEN x ELSE y) + phase) \div 2) % 2 = 0 THEN a ELSE b
    IN  GrayImage(height, level)

\* one vertical edge at column c
Step(height, a, b, c) ==
    LET level(x, y) == IF x < c THEN a ELSE b IN GrayImage(height, level)

SmallImages(height) ==
    {Solid(height, a) : a \in {0, 48}}
        \cup {Stripes(height, TRUE, 0, 6, phase) : phase \in 0..1}
        \cup {Stripes(height, FALSE, 0, 6, phase) : phase \in 0..1}
        \cup {Step(height, 0, 6, c) : c \in {ALIGNMENT_DOWNSAMPLE \div 2,
                                             ALIGNMENT_DOWNSAMPLE \div 2 + 1}}
        \cup {Stripes(height, TRUE, 0, 48, 0)}

\* square frames of three widths, and a frame too flat to have a scored row
AlignShapes ==
    { << 5, 5 >>,
      << ALIGNMENT_DOWNSAMPLE, ALIGNMENT_DOWNSAMPLE >>,
      << 2 * ALIGNMENT_DOWNSAMPLE, 2 * ALIGNMENT_DOWNSAMPLE >>,
      << ALIGNMENT_DOWNSAMPLE, 2 * (SEARCH_WINDOW + 2) >> }

AlignFrames ==
    UNION { { [width |-> d[1], height |-> d[2], small |-> img]
              : img \in SmallImages(TargetHeight(d[1], d[2])) } : d \in AlignShapes }

\* the caller hands the estimator two frames: any two of one size, or any frame and a
\* striped one of another size
AlignInvoke ==
    /\ call.phase = "idle"
    /\ \E prev \in AlignFrames, curr \in AlignFrames :
          /\ \/ Dims(prev) = Dims(curr)
             \/ curr.small = Stripes(curr.small.height, TRUE, 0, 6, 0)
          /\ call' = [phase |-> "alignArgs", prev |-> prev, curr |-> curr]
    /\ UNCHANGED <<component, twin>>

AlignCall ==
    /\ call.phase = "alignArgs"
    /\ LET locals == AlignLocals(call.prev, call.curr, call.prev.small, call.curr.small)
       IN  call' = [phase |-> "aligned", prev |-> call.prev, curr |-> call.curr,
                    locals |-> locals, out |-> AlignResult(locals)]
    /\ UNCHANGED <<component, twin>>

AlignNext == AlignInvoke \/ AlignCall

AlignSpec == Init /\ [][AlignNext]_vars

---------------------------------------------------------------------------
(* The merge engine applied to a checkerboard and the blank accumulator    *)
(* that performStacking makes for a first frame                            *)

MaxBoard == 6
MaxCell == 3

BoardSizes == { << 4, 4 >>, << MaxBoard, 4 >>, << MaxBoard, MaxBoard >> }

\* <<a, b>>: the gray levels of the two kinds of cell
BoardLevels == { << 0, 255 >>, << 255, 0 >>, << 100, 160 >>, << 61, 40 >>, << 100, 115 >> }

\* an opaque gray checkerboard with square cells of cell pixels
Checkerboard(w, h, cell, a, b) ==
    [width |-> w, height |-> h,
     data |-> [i \in 1..(w * h) |->
                 LET v == IF ((((i - 1) % w) \div cell) + (((i - 1) \div w) \div cell)) % 2 = 0
                          THEN a ELSE b
                 IN  << v, v, v, 255 >>]]

BoardInvoke ==
    /\ call.phase = "idle"
    /\ \E s \in BoardSizes, cell \in 1..MaxCell, lv \in BoardLevels :
       \E sens \in Sensitivities, debug \in BOOLEAN :
          call' = Invocation(EmptyAcc(s[1], s[2]),
                             Checkerboard(s[1], s[2], cell, lv[1], lv[2]),
                             0, 0, sens, 20, debug)
    /\ UNCHANGED <<component, twin>>

BoardNext == BoardInvoke \/ MergeCall

BoardSpec == Init /\ [][BoardNext]_vars

---------------------------------------------------------------------------
(* getFingerprintSimilarity applied to pairs of byte sequences, and the    *)
(* merge engine applied to a frame that is not of the accumulator's size   *)

MaxFingerprint == 3

FingerprintBytes == {0, 1, 128, 255}

Fingerprints ==
    UNION { [1..n -> FingerprintBytes] : n \in 0..MaxFingerprint }

FingerprintInvoke ==
    /\ call.phase = "idle"
    /\ \E fp1 \in Fingerprints, fp2 \in Fingerprints :
          call' = [phase |-> "fpArgs", fp1 |-> fp1, fp2 |-> fp2]
    /\ UNCHANGED <<component, twin>>

\* the function has no throw statement and calls nothing that throws: it returns
FingerprintCall ==
    /\ call.phase = "fpArgs"
    /\ call' = [phase |-> "compared", fp1 |-> call.fp1, fp2 |-> call.fp2,
                out |-> getFingerprintSimilarity(call.fp1, call.fp2)]
    /\ UNCHANGED <<component, twin>>

FingerprintNext == FingerprintInvoke \/ FingerprintCall

FingerprintSpec == Init /\ [][FingerprintNext]_vars

\* the caller hands the engine an accumulator and a frame of another size
MismatchInvoke ==
    /\ call.phase = "idle"
    /\ \E s \in Sizes, n \in Sizes :
       \E acc \in AccsOf(s[1], s[2]), new \in FramesOf(n[1], n[2], Palette) :
       \E sens \in Sensitivities, thr \in Thresholds, debug \in BOOLEAN :
          /\ s # n
          /\ call' = Invocation(acc, new, 0, 0, sens, thr, debug)
    /\ UNCHANGED <<component, twin>>

MisuseNext == MismatchInvoke \/ MergeCall \/ FingerprintInvoke \/ FingerprintCall

MisuseSpec == Init /\ [][MisuseNext]_vars

---------------------------------------------------------------------------
(* Successive merges on a heap of buffers.  call.heap is the sequence of   *)
(* the buffers allocated so far (an ImageData with its pixel buffer, or a  *)
(* sharpness map), a buffer's identity is its index; call.acc holds the    *)
(* identities of the accumulator's two buffers, call.frames those of the   *)
(* captured frames.  Nothing is freed, so that an earlier accumulator can  *)
(* be looked at after a later merge.                                       *)

MaxCaptured == 2

HeapAccs(w, h) == {TexAcc(w, h, 1, 1, m) : m \in {0, 2}}

HeapFrames(w, h) == {TexFrame(w, h, Palette, k, 1, 0) : k \in 0..1}

HeapOffsets == {<<0, 0>>, <<OffsetDen, 0>>}

\* variant: the result is written into the accumulator's own buffer
ResultBuffer_InPlace(heap, input) == input

\* new Uint8ClampedArray(len * 4), new Float32Array(len): a buffer of its own
ResultBuffer(heap, input) == Len(heap) + 1

\* the heap after the buffer id has been filled with content
Store(heap, id, content) ==
    IF id = Len(heap) + 1 THEN Append(heap, content) ELSE [heap EXCEPT ![id] = content]

\* the caller has an accumulator
HeapStart ==
    /\ call.phase = "idle"
    /\ \E s \in MergeSizes : \E acc \in HeapAccs(s[1], s[2]) :
          call' = [phase |-> "heap",
                   heap |-> << acc.pixels, [map |-> acc.sharpness] >>,
                   acc |-> [pixels |-> 1, sharpness |-> 2],
                   frames |-> {}, merges |-> 0]
    /\ UNCHANGED <<component, twin>>

\* the capture boundary produces a frame
HeapCapture ==
    /\ call.phase = "heap"
    /\ Cardinality(call.frames) < MaxCaptured
    /\ \E new \in HeapFrames(call.heap[1].width, call.heap[1].height) :
          call' = [call EXCEPT !.heap = Append(@, new),
                               !.frames = @ \cup {Len(call.heap) + 1}]
    /\ UNCHANGED <<component, twin>>

\* mergeFocusStack on the accumulator and a captured frame; the caller keeps the result
\* as its accumulator
HeapMerge ==
    /\ call.phase = "heap"
    /\ call.merges < MaxMerges
    /\ \E new \in call.frames, off \in HeapOffsets, debug \in BOOLEAN :
          LET accImageData == call.heap[call.acc.pixels]
              accSharpness == call.heap[call.acc.sharpness].map
              result == mergeFocusStack(accImageData, accSharpness, call.heap[new],
                                        off[1], off[2], 5, 20, debug)
              resultPixels == ResultBuffer(call.heap, call.acc.pixels)
              heap1 == Store(call.heap, resultPixels, result.imageData)
              resultSharpness == ResultBuffer(heap1, call.acc.sharpness)
              heap2 == Store(heap1, resultSharpness, [map |-> result.sharpness])
          IN  call' = [call EXCEPT !.heap = heap2,
                                   !.acc = [pixels |-> resultPixels,
                                            sharpness |-> resultSharpness],
                                   !.merges = @ + 1]
    /\ UNCHANGED <<component, twin>>

HeapNext == HeapStart \/ HeapCapture \/ HeapMerge

HeapSpec == Init /\ [][HeapNext]_vars

---------------------------------------------------------------------------
(* A series of merges into an accumulator that started blank, under one    *)
(* sensitivity and one threshold.  call.maps are the sharpness maps of the *)
(* accumulator, the blank one first, one more after each merge.            *)

SeriesFrames(w, h) == {TexFrame(w, h, Palette, k, 1, m) : k \in 0..1, m \in 0..2}

SeriesOffsets == {<<0, 0>>, <<OffsetDen, 0>>, <<-OffsetDen, OffsetDen>>}

\* slider values kept through a series; 0 is the least of both
SeriesSensitivities == {0, 5}
SeriesThresholds == {0, 20}

\* a blank accumulator is made and the sliders stand at some values
SeriesStart ==
    /\ call.phase = "idle"
    /\ \E s \in MergeSizes, sens \in SeriesSensitivities, thr \in SeriesThresholds :
          call' = [phase |-> "series", acc |-> EmptyAcc(s[1], s[2]),
                   sensitivity |-> sens, threshold |-> thr,
                   maps |-> << EmptyAcc(s[1], s[2]).sharpness >>]
    /\ UNCHANGED <<component, twin>>

\* mergeFocusStack of a frame into the accumulator; the result is the accumulator
SeriesMerge ==
    /\ call.phase = "series"
    /\ Len(call.maps) <= MaxMerges
    /\ \E new \in SeriesFrames(call.acc.pixels.width, call.acc.pixels.height) :
       \E off \in SeriesOffsets, debug \in BOOLEAN :
          LET result == mergeFocusStack(call.acc.pixels, call.acc.sharpness, new,
                                        off[1], off[2],
                                        call.sensitivity, call.threshold, debug)
          IN  call' = [call EXCEPT !.acc = [pixels |-> result.imageData,
                                            sharpness |-> result.sharpness],
                                   !.maps = Append(@, result.sharpness)]
    /\ UNCHANGED <<component, twin>>

SeriesNext == SeriesStart \/ SeriesMerge

SeriesSpec == Init /\ [][SeriesNext]_vars

---------------------------------------------------------------------------
(* The second part of performStacking: what alignFrames returned becomes   *)
(* the offset of the merge.                                                *)

\* components of an offset, in units of 1/OffsetDen pixel, around the limit of 100 pixels
PolicyComponents ==
    {-(101 * OffsetDen), -(100 * OffsetDen), 0, OffsetDen, 100 * OffsetDen, 101 * OffsetDen}

\* confidences in hundredths, around the limit of 0.5
PolicyConfidences == {0, 50, 51, 100}

PolicyOutcomes ==
    {[x |-> x, y |-> y, confidence |-> c] :
        x \in PolicyComponents, y \in PolicyComponents, c \in PolicyConfidences}

\* alignFrames has returned the alignment a for the accumulator and the current frame
PolicyAlign ==
    /\ call.phase = "idle"
    /\ \E s \in MergeSizes :
       \E acc \in HeapAccs(s[1], s[2]), new \in HeapFrames(s[1], s[2]), a \in PolicyOutcomes :
          call' = [phase |-> "alignment", acc |-> acc, new |-> new, alignment |-> a]
    /\ UNCHANGED <<component, twin>>

\* the offset is decided and the merge is made
PolicyMerge ==
    /\ call.phase = "alignment"
    /\ LET final == FinalOffset(call.alignment)
           result == mergeFocusStack(call.acc.pixels, call.acc.sharpness, call.new,
                                     final[1], final[2], 5, 20, FALSE)
       IN  call' = [phase |-> "stacked", acc |-> call.acc, new |-> call.new,
                    alignment |-> call.alignment, offset |-> final,
                    out |-> [pixels |-> result.imageData, sharpness |-> result.sharpness]]
    /\ UNCHANGED <<component, twin>>

PolicyNext == PolicyAlign \/ PolicyMerge

PolicySpec == Init /\ [][PolicyNext]_vars

---------------------------------------------------------------------------
(* Two runs of the merge engine on the same accumulator, frames, offsets,  *)
(* sensitivity and threshold; each run has its own debug flag at each      *)
(* merge.  twin.a and twin.b are the accumulators of the two runs.         *)

\* a flat frame and a diagonal one
TwinFrames(w, h) == {TexFrame(w, h, Palette, k, k, 0) : k \in 0..1}

\* no shift, and shifts by a whole pixel along x and along both axes
TwinOffsets == {<<0, 0>>, <<OffsetDen, 0>>, <<-OffsetDen, OffsetDen>>}

\* the diagonal accumulators
TwinAccs(w, h) == {TexAcc(w, h, 1, 1, m) : m \in 0..(Len(AccCells) - 1)}

\* <<sensitivity, threshold>> of a run
TwinSettings == {<<5, 20>>, <<1, 0>>, <<1, 45>>}

TwinInit ==
    /\ accumulatorRef = NoAcc
    /\ currentImageData = NoFrame
    /\ sensitivity = 5
    /\ threshold = 20
    /\ debugMode = FALSE
    /\ currentDepth = 0
    /\ maxDepth = 1
    /\ isProcessing = FALSE
    /\ offsetDisplay = <<0, 0>>
    /\ lastImageDataRef = NoFrame
    /\ stagePosRef = <<0, 0>>
    /\ frameRequested = TRUE
    /\ relativeOffset = <<0, 0>>
    /\ isAnalyzing = FALSE
    /\ analysisPending = FALSE
    /\ lastAnalysis = NoEntity
    /\ analysisHistory = 0
    /\ call = NoCall
    /\ stack = NoStack
    /\ \E s \in MergeSizes : \E acc \in TwinAccs(s[1], s[2]) :
       \E st \in TwinSettings :
          twin = [n |-> 0, a |-> acc, b |-> acc,
                  sensitivity |-> st[1], threshold |-> st[2],
                  debugA |-> FALSE, debugB |-> FALSE]

TwinMerge ==
    /\ twin.n < MaxMerges
    /\ \E new \in TwinFrames(twin.a.pixels.width, twin.a.pixels.height) :
       \E off \in TwinOffsets :
       \E da \in BOOLEAN, db \in BOOLEAN :
          LET ra == mergeFocusStack(twin.a.pixels, twin.a.sharpness, new, off[1], off[2],
                                    twin.sensitivity, twin.threshold, da)
              rb == mergeFocusStack(twin.b.pixels, twin.b.sharpness, new, off[1], off[2],
                                    twin.sensitivity, twin.threshold, db)
          IN  twin' = [twin EXCEPT !.n = @ + 1,
                         !.a = [pixels |-> ra.imageData, sharpness |-> ra.sharpness],
                         !.b = [pixels |-> rb.imageData, sharpness |-> rb.sharpness],
                         !.debugA = da, !.debugB = db]
    /\ UNCHANGED <<component, call>>

TwinSpec == TwinInit /\ [][TwinMerge]_vars

---------------------------------------------------------------------------
(* Properties of one invocation of the merge engine.  They speak of the    *)
(* invocation recorded in call: t is an index into the accumulator,        *)
(* (t mod width, t div width) the output pixel.                            *)

CallReturned == call.phase = "returned"

CallWidth == call.acc.pixels.width
CallHeight == call.acc.pixels.height
Targets == 0..(CallWidth * CallHeight - 1)

\* the integer nearest to x + off / OffsetDen, the upper one of two
Nearest(x, off) ==
    LET q == (x * OffsetDen + off) \div OffsetDen
    IN  CHOOSE n \in {q, q + 1} :
            /\ 2 * OffsetDen * n - OffsetDen <= 2 * (x * OffsetDen + off)
            /\ 2 * (x * OffsetDen + off) < 2 * OffsetDen * n + OffsetDen

SampleX(t) == Nearest(t % CallWidth, call.offsetX)
SampleY(t) == Nearest(t \div CallWidth, call.offsetY)
SampleInFrame(t) ==
    /\ SampleX(t) \in 0..(CallWidth - 1)
    /\ SampleY(t) \in 0..(CallHeight - 1)
SampleIdx(t) == SampleY(t) * CallWidth + SampleX(t)

NewPixelAt(t) == call.new.data[SampleIdx(t) + 1]
NewValAt(t) ==
    computeSharpnessMap(call.new.data, CallWidth, CallHeight)[SampleIdx(t) + 1]
AccPixel(t) == call.acc.pixels.data[t + 1]
OldValAt(t) == call.acc.sharpness[t + 1]
OutPixel(t) == call.out.imageData.data[t + 1]
OutSharp(t) == call.out.sharpness[t + 1]

NewSharp(t) == IsSharp(NewValAt(t), call.threshold)
OldSharp(t) == IsSharp(OldValAt(t), call.threshold)
\* rule 3: the new pixel is sharp and beats the old one by the margin, or the old
\* one is not sharp
Rule3(t) ==
    NewSharp(t) /\ (Exceeds(NewValAt(t), OldValAt(t), call.sensitivity) \/ ~OldSharp(t))

\* C1: debug off, sampled position in the frame, new pixel sharp and either beyond
\* the old sharpness by the sensitivity or the old one not sharp: the output pixel
\* is the new frame's R, G, B at the sampled position with alpha 255, and the
\* output sharpness is the new frame's at the sampled position.
C1_NewPixelAdopted ==
    (CallReturned /\ ~call.debug) =>
        \A t \in Targets :
            (SampleInFrame(t) /\ Rule3(t)) =>
                /\ OutPixel(t) = << NewPixelAt(t)[1], NewPixelAt(t)[2],
                                    NewPixelAt(t)[3], 255 >>
                /\ OutSharp(t) = NewValAt(t)

\* a shifted merge in which a new pixel that is not opaque wins over an old one
C1_Witness ==
    /\ CallReturned /\ ~call.debug /\ call.offsetX # 0 /\ call.offsetY # 0
    /\ \E t \in Targets :
          /\ SampleInFrame(t) /\ Rule3(t)
          /\ NewPixelAt(t)[4] # 255
          /\ OldValAt(t) > 0

\* C2: sampled position in the frame, the new pixel does not win and the old value
\* is not above the threshold: the output pixel is fully transparent and its
\* sharpness is 0, with the debug flag on or off.
C2_NeitherSharpTransparent ==
    CallReturned =>
        \A t \in Targets :
            (SampleInFrame(t) /\ ~Rule3(t) /\ ~OldSharp(t)) =>
                /\ OutPixel(t)[4] = 0
                /\ OutSharp(t) = 0

\* in debug mode, an opaque pixel of faint but non-zero sharpness is cleared
C2_Witness ==
    /\ CallReturned /\ call.debug
    /\ \E t \in Targets :
          /\ SampleInFrame(t) /\ ~Rule3(t) /\ ~OldSharp(t)
          /\ AccPixel(t)[4] = 255 /\ OldValAt(t) > 0
          /\ NewValAt(t) > 0

\* C3: debug off, sampled position in the frame, old value above the threshold and
\* the new pixel did not win: the four channels and the sharpness are the input
\* accumulator's.
C3_OldSharpRetained ==
    (CallReturned /\ ~call.debug) =>
        \A t \in Targets :
            (SampleInFrame(t) /\ OldSharp(t) /\ ~Rule3(t)) =>
                /\ OutPixel(t) = AccPixel(t)
                /\ OutSharp(t) = OldValAt(t)

\* a sharp new pixel that stays within the sensitivity of a sharp old one
C3_Witness ==
    /\ CallReturned /\ ~call.debug
    /\ \E t \in Targets :
          /\ SampleInFrame(t) /\ OldSharp(t) /\ ~Rule3(t)
          /\ NewSharp(t) /\ NewValAt(t) > OldValAt(t)

\* C4: sampled position outside the frame: the four channels and the sharpness are
\* the input accumulator's, for every sensitivity, threshold and debug flag.
C4_OutOfBoundsPassThrough ==
    CallReturned =>
        \A t \in Targets :
            ~SampleInFrame(t) =>
                /\ OutPixel(t) = AccPixel(t)
                /\ OutSharp(t) = OldValAt(t)

\* in debug mode a pixel sampled left of the frame keeps an opaque unsharp pixel,
\* and one sampled outside keeps a sharp pixel unpainted
C4_Witness ==
    /\ CallReturned /\ call.debug
    /\ \E t \in Targets :
          /\ SampleX(t) < 0
          /\ AccPixel(t)[4] = 255 /\ ~OldSharp(t)
    /\ \E t \in Targets :
          /\ ~SampleInFrame(t)
          /\ OldSharp(t) /\ AccPixel(t) # Magenta

\* the pixels the same invocation returns with the debug flag off
PlainPixel(t) ==
    mergeFocusStack(call.acc.pixels, call.acc.sharpness, call.new,
                    call.offsetX, call.offsetY,
                    call.sensitivity, call.threshold, FALSE).imageData.data[t + 1]

\* C6: debug on: every pixel sampled in the frame that is taken by rule 3 or kept
\* by rule 5 (old value above the threshold) is (255, 0, 255, 255), and every other
\* pixel is the one the merge returns with the debug flag off.
C6_DebugMagenta ==
    (CallReturned /\ call.debug) =>
        \A t \in Targets :
            IF SampleInFrame(t) /\ (Rule3(t) \/ OldSharp(t))
            THEN OutPixel(t) = Magenta
            ELSE OutPixel(t) = PlainPixel(t)

\* a debug merge with a pixel taken by rule 3, one kept by rule 5, one cleared by
\* rule 4 and one sampled outside the frame
C6_Witness ==
    /\ CallReturned /\ call.debug
    /\ \E t \in Targets : SampleInFrame(t) /\ Rule3(t)
    /\ \E t \in Targets : SampleInFrame(t) /\ ~Rule3(t) /\ OldSharp(t)
    /\ \E t \in Targets : SampleInFrame(t) /\ ~Rule3(t) /\ ~OldSharp(t)
                          /\ AccPixel(t)[4] = 255
    /\ \E t \in Targets : ~SampleInFrame(t)

\* the pixels at which the sharpness mapper computes a value
InteriorTargets ==
    {t \in Targets : /\ t % CallWidth \in 1..(CallWidth - 2)
                     /\ t \div CallWidth \in 1..(CallHeight - 2)}

NewSharpnessOfCall == computeSharpnessMap(call.new.data, CallWidth, CallHeight)

\* a flat accumulator (one colour, sharpness 0 everywhere), a new frame whose computed
\* sharpness values are all above the threshold, offset (0, 0), debug off
C9_Premise ==
    /\ CallReturned /\ ~call.debug
    /\ call.offsetX = 0 /\ call.offsetY = 0
    /\ \A t \in Targets : OldValAt(t) = 0 /\ AccPixel(t) = AccPixel(0)
    /\ \A t \in InteriorTargets : IsSharp(NewSharpnessOfCall[t + 1], call.threshold)

C9_Gray ==
    /\ AccPixel(0)[1] = AccPixel(0)[2] /\ AccPixel(0)[2] = AccPixel(0)[3]
    /\ AccPixel(0)[4] = 255

\* C9 as stated: a uniformly gray accumulator of sharpness 0 and a new frame whose
\* sharpness values are all above the threshold: the merged pixels are the new frame's
\* pixels, channel by channel.  The sharpness map is 0 on the border of every frame, so
\* the premise is read on the values the mapper computes.
C9_AsStated ==
    (C9_Premise /\ C9_Gray) => \A t \in Targets : OutPixel(t) = call.new.data[t + 1]

\* C9, amended: under the premise with a threshold >= 0, every interior pixel is the new
\* frame's R, G, B with alpha 255 and carries the new frame's sharpness, and every border
\* pixel is the accumulator's colour made fully transparent, with sharpness 0.
C9_FlatAccumulatorInteriorAdopted ==
    (C9_Premise /\ call.threshold >= 0) =>
        \A t \in Targets :
            IF t \in InteriorTargets
            THEN /\ OutPixel(t) = << call.new.data[t + 1][1], call.new.data[t + 1][2],
                                     call.new.data[t + 1][3], 255 >>
                 /\ OutSharp(t) = NewSharpnessOfCall[t + 1]
            ELSE /\ OutPixel(t) = [AccPixel(t) EXCEPT ![4] = 0]
                 /\ OutSharp(t) = 0

\* the premise with an opaque gray accumulator and a threshold above 0
C9_Witness ==
    /\ C9_Premise /\ call.threshold > 0
    /\ AccPixel(0) = <<128, 128, 128, 255>>

\* neither the accumulator nor the new frame has a sharpness above (C10_Below: at or
\* above) the threshold anywhere
C10_NoneSharp ==
    /\ CallReturned
    /\ \A t \in Targets : ~OldSharp(t)
    /\ \A t \in Targets : ~IsSharp(NewSharpnessOfCall[t + 1], call.threshold)

C10_Below ==
    /\ C10_NoneSharp
    /\ \A t \in Targets :
          /\ OldValAt(t) < call.threshold * call.threshold
          /\ NewSharpnessOfCall[t + 1] < call.threshold * call.threshold

\* C10 as stated: accumulator and new frame below the threshold everywhere: every
\* merged pixel has alpha 0 and sharpness 0, for every offset.
C10_AsStated ==
    C10_Below => \A t \in Targets : OutPixel(t)[4] = 0 /\ OutSharp(t) = 0

\* C10, amended: accumulator and new frame not above the threshold anywhere: every
\* merged pixel whose sampled position is in the frame has alpha 0 and sharpness 0, and
\* every pixel sampled outside the frame keeps the accumulator's pixel and sharpness;
\* for every offset, sensitivity and debug flag.
C10_NoneSharpTransparent ==
    C10_NoneSharp =>
        \A t \in Targets :
            IF SampleInFrame(t)
            THEN OutPixel(t)[4] = 0 /\ OutSharp(t) = 0
            ELSE OutPixel(t) = AccPixel(t) /\ OutSharp(t) = OldValAt(t)

\* a shifted debug merge of a faint frame into an opaque faint accumulator
C10_Witness ==
    /\ C10_NoneSharp /\ call.debug
    /\ call.offsetX # 0
    /\ \E t \in Targets : SampleInFrame(t) /\ AccPixel(t)[4] = 255 /\ OldValAt(t) > 0
    /\ \E t \in Targets : SampleInFrame(t) /\ NewValAt(t) > 0
    /\ \E t \in Targets : ~SampleInFrame(t)

\* C5: two runs that merge the same frames at the same offsets with the same
\* sensitivity and threshold, and differ in the debug flag only, hold the same
\* sharpness map after every merge.
C5_DebugLeavesSharpness ==
    twin.n > 0 => twin.a.sharpness = twin.b.sharpness

\* after the last merge, with different flags, the two runs show different pixels
\* over a map that holds sharp entries
C5_Witness ==
    /\ twin.n = MaxMerges
    /\ twin.debugA # twin.debugB
    /\ twin.a.pixels # twin.b.pixels
    /\ \E i \in DOMAIN twin.a.sharpness : twin.a.sharpness[i] > 0

---------------------------------------------------------------------------
(* The stack action *)

\* a step of performStacking that got as far as merging: it leaves an accumulator,
\* and a new one or a depth one higher
StackingStep ==
    /\ accumulatorRef' # NoAcc
    /\ (accumulatorRef' # accumulatorRef \/ currentDepth' = currentDepth + 1)

AccMismatch ==
    \/ accumulatorRef = NoAcc
    \/ accumulatorRef.pixels.width # currentImageData.width
    \/ accumulatorRef.pixels.height # currentImageData.height

BlankMerge ==
    LET n == currentImageData.width * currentImageData.height
        blank == [width |-> currentImageData.width, height |-> currentImageData.height,
                  data |-> [i \in 1..n |-> <<0, 0, 0, 0>>]]
    IN  mergeFocusStack(blank, [i \in 1..n |-> 0], currentImageData, 0, 0,
                        sensitivity, threshold, debugMode)

\* C7: when the accumulator is absent or its size differs from the frame's, the stack
\* action starts over: the new accumulator is the merge of the frame, at offset (0, 0)
\* and with the current sensitivity, threshold and debug flag, into an empty
\* transparent zero-sharpness accumulator of the frame's size, and alignFrames is not run.
C7_StackReinitialises ==
    [][(StackingStep /\ AccMismatch) =>
         /\ accumulatorRef' = [pixels |-> BlankMerge.imageData,
                               sharpness |-> BlankMerge.sharpness]
         /\ stack'.path = "init"
         /\ ~stack'.aligned
         /\ stack'.offset = <<0, 0>>
         /\ stack'.accDims = Dims(currentImageData)
         /\ stack'.newDims = Dims(currentImageData)
         /\ UNCHANGED <<sensitivity, threshold, debugMode, currentImageData>>]_vars

\* an accumulator of another size was replaced, and the frame left something in the new one
C7_Witness ==
    /\ stack.path = "init"
    /\ stack.prevDims # <<0, 0>>
    /\ stack.prevDims # stack.newDims
    /\ accumulatorRef # NoAcc
    /\ currentImageData # NoFrame
    /\ Dims(accumulatorRef.pixels) = Dims(currentImageData)
    /\ \E i \in 1..Len(accumulatorRef.sharpness) :
          accumulatorRef.sharpness[i] > 0 /\ accumulatorRef.pixels.data[i][4] = 255
    /\ \E i \in 1..Len(accumulatorRef.sharpness) : accumulatorRef.pixels.data[i][4] = 0

\* C8: mergeFocusStack is called only with an accumulator and a frame of the same
\* width and height, its result has the size of the accumulator it was given, and so
\* the accumulator always has the size of the frame last stacked (and buffers of
\* width * height entries).
C8_AccumulatorSize ==
    /\ stack.accDims = stack.newDims
    /\ accumulatorRef # NoAcc =>
          /\ Dims(accumulatorRef.pixels) = stack.accDims
          /\ Dims(accumulatorRef.pixels) = stack.newDims
          /\ Len(accumulatorRef.pixels.data)
                = accumulatorRef.pixels.width * accumulatorRef.pixels.height
          /\ Len(accumulatorRef.sharpness)
                = accumulatorRef.pixels.width * accumulatorRef.pixels.height

\* a second layer was merged, shifted, into an accumulator of the frame's size, after
\* the size of the frames had changed
C8_Witness ==
    /\ accumulatorRef # NoAcc
    /\ stack.path = "merge"
    /\ stack.prevDims = <<4, 3>>
    /\ stack.newDims = <<4, 3>>
    /\ stack.offset # <<0, 0>>
    /\ currentDepth = 2
    /\ Dims(accumulatorRef.pixels) = <<4, 3>>

---------------------------------------------------------------------------
(* Properties of one invocation of the alignment estimator *)

AlignReturned == call.phase = "aligned"

EdgesOf(small) ==
    computeEdgeMap(fastBlur(toGrayscale(small), ALIGNMENT_DOWNSAMPLE, small.height),
                   ALIGNMENT_DOWNSAMPLE, small.height)

\* the offset the search selected and its score
CallSearch == call.locals

\* the refined offset times the scale, before the deadband
RawOffset == [x |-> call.locals.finalX, y |-> call.locals.finalY]

\* the frame has an edge at a scored position
Textured(frame) ==
    \E x \in 0..(ALIGNMENT_DOWNSAMPLE - 1), y \in 0..(frame.small.height - 1) :
        /\ \E k \in DOMAIN ScoredPositions(ALIGNMENT_DOWNSAMPLE) :
              ScoredPositions(ALIGNMENT_DOWNSAMPLE)[k] = x
        /\ \E k \in DOMAIN ScoredPositions(frame.small.height) :
              ScoredPositions(frame.small.height)[k] = y
        /\ EdgesOf(frame.small)[y * ALIGNMENT_DOWNSAMPLE + x + 1] > 0

IsSolid(frame) ==
    \A i \in 1..Len(frame.small.data) : frame.small.data[i] = frame.small.data[1]

Zero == FracInt(0)

\* C11 as stated: a textured frame aligned with itself: the search selects the offset
\* (0, 0), and alignFrames returns x = y = 0 with a confidence of at least 0.95.
C11_AsStated ==
    (AlignReturned /\ call.prev = call.curr /\ Textured(call.prev)) =>
        /\ CallSearch.bestX = 0 /\ CallSearch.bestY = 0
        /\ call.out.x = Zero /\ call.out.y = Zero
        /\ 100 * call.out.confidence.num >= 95 * call.out.confidence.den

\* C12 as stated: two solid gray square frames of one size: alignFrames returns the
\* offset (0, 0) and the confidence 1.
C12_AsStated ==
    (/\ AlignReturned
     /\ IsSolid(call.prev) /\ IsSolid(call.curr)
     /\ call.prev.width = call.prev.height
     /\ call.curr.width = call.prev.width /\ call.curr.height = call.prev.height) =>
        /\ call.out.x = Zero /\ call.out.y = Zero
        /\ call.out.confidence = FracInt(1)

\* C14: when the scaled, refined offset is shorter than the deadband (0.8), both
\* returned components are 0, and otherwise both are returned as computed; so a
\* returned offset is (0, 0) or at least 0.8 long.
C14_Deadband ==
    AlignReturned =>
        /\ IF InDeadband(RawOffset.x, RawOffset.y)
           THEN call.out.x = Zero /\ call.out.y = Zero
           ELSE call.out.x = RawOffset.x /\ call.out.y = RawOffset.y
        /\ \/ (call.out.x = Zero /\ call.out.y = Zero)
           \/ ~InDeadband(call.out.x, call.out.y)

\* an offset with two non-zero components, shorter than the deadband, was snapped
C14_Witness ==
    /\ AlignReturned
    /\ RawOffset.x # Zero /\ RawOffset.y # Zero
    /\ InDeadband(RawOffset.x, RawOffset.y)
    /\ call.out.x = Zero /\ call.out.y = Zero

\* C15: the confidence alignFrames returns is a number from 0 to 1, also for frames
\* without a scored sample and for frames of different sizes.
C15_ConfidenceRange ==
    AlignReturned =>
        /\ call.out.confidence.den > 0
        /\ call.out.confidence.num >= 0
        /\ call.out.confidence.num <= call.out.confidence.den

\* frames of different sizes whose best score is above width * height * 100
C15_Witness ==
    /\ AlignReturned
    /\ call.prev.width # call.curr.width
    /\ Finite(CallSearch.minDiff)
    /\ CallSearch.minDiff > ALIGNMENT_DOWNSAMPLE * call.prev.small.height * 100
    /\ call.out.confidence = Zero

\* the place of the offset (dx, dy) in the order of the two loops
ScanIndex(dx, dy) == (dy + SEARCH_WINDOW) * (2 * SEARCH_WINDOW + 1) + (dx + SEARCH_WINDOW) + 1

\* the offsets whose score is the least one
Minimal ==
    {k \in 1..Len(ScanOrder) :
        call.locals.counted /\ call.locals.scores[k] = call.locals.minDiff}

\* C21: among the offsets whose sum of squared differences is the least one,
\* alignFrames selects the one scanned first, dy in the outer loop and dx in the
\* inner loop, both ascending; it does not prefer the offset nearest to (0, 0).
C21_FirstMinimumWins ==
    (AlignReturned /\ Finite(CallSearch.minDiff)) =>
        /\ ScanIndex(CallSearch.bestX, CallSearch.bestY) \in Minimal
        /\ \A k \in 1..Len(ScanOrder) :
              \/ call.locals.scores[k] = NaN
              \/ call.locals.scores[k] > CallSearch.minDiff
              \/ /\ call.locals.scores[k] = CallSearch.minDiff
                 /\ \/ CallSearch.bestY < ScanOrder[k][2]
                    \/ /\ CallSearch.bestY = ScanOrder[k][2]
                       /\ CallSearch.bestX <= ScanOrder[k][1]

\* textured frames where (0, 0) has the least score too and an earlier offset is kept
C21_Witness ==
    /\ AlignReturned /\ Finite(CallSearch.minDiff)
    /\ Textured(call.prev) /\ ~IsSolid(call.curr)
    /\ ScanIndex(0, 0) \in Minimal
    /\ << CallSearch.bestX, CallSearch.bestY >> # << 0, 0 >>
    /\ << CallSearch.bestX, CallSearch.bestY >> # << -SEARCH_WINDOW, -SEARCH_WINDOW >>

\* the settings of the source and the frame size the camera is asked for
SourceDownsample == 128
SourceSearchWindow == 40
CameraWidth == 1280
CameraHeight == 720

\* Math.round(cropH * (targetWidth / cropW)) of a width x height frame
DownsampledHeight(width, height, targetWidth) ==
    (2 * targetWidth * height + width) \div (2 * width)

\* no row lies between the padding and the height less the padding
Flat(frame) == frame.small.height <= 2 * (SEARCH_WINDOW + 2)

\* C30: a frame whose downsampled height is at most twice the padding (as the
\* 1280 x 720 camera frame is under the settings 128 and 40: 72 <= 84) has no scored
\* position at any offset, so alignFrames returns x = 0, y = 0 and confidence 0 whatever
\* the frames show, and the tracking loop, which moves the stage on a confidence
\* above 0.6 only, leaves the stage position as it is.
C30_FlatFramesNeverTrack ==
    /\ DownsampledHeight(CameraWidth, CameraHeight, SourceDownsample)
          <= 2 * (SourceSearchWindow + 2)
    /\ (AlignReturned /\ Flat(call.prev)) =>
          /\ ~call.locals.counted
          /\ call.out.x = Zero /\ call.out.y = Zero
          /\ call.out.confidence = Zero
          /\ 10 * call.out.confidence.num <= 6 * call.out.confidence.den
          /\ StageAfter(stagePosRef, [x |-> 0, y |-> 0, confidence |-> 0]) = stagePosRef

\* two different frames of a flat shape, the earlier one not solid
C30_Witness ==
    /\ AlignReturned /\ Flat(call.prev) /\ Flat(call.curr)
    /\ ~IsSolid(call.prev)
    /\ call.prev.small # call.curr.small

\* the score kept for the offset (dx, dy), or v0 where none was kept
Neighbour(dx, dy) ==
    IF call.locals.counted /\ Abs(dx) <= SEARCH_WINDOW /\ Abs(dy) <= SEARCH_WINDOW
    THEN call.locals.scores[ScanIndex(dx, dy)]
    ELSE call.locals.minDiff

\* the curvature denominator of an axis is a number and is 0 (the scores are integers)
FlatCurvature(vMinus, v0, vPlus) ==
    /\ Finite(vMinus) /\ Finite(v0) /\ Finite(vPlus)
    /\ vMinus - 2 * v0 + vPlus = 0

FlatX ==
    FlatCurvature(Neighbour(CallSearch.bestX - 1, CallSearch.bestY), CallSearch.minDiff,
                  Neighbour(CallSearch.bestX + 1, CallSearch.bestY))

FlatY ==
    FlatCurvature(Neighbour(CallSearch.bestX, CallSearch.bestY - 1), CallSearch.minDiff,
                  Neighbour(CallSearch.bestX, CallSearch.bestY + 1))

\* bestX * scale and bestY * scale
Unrefined ==
    [x |-> FracMul(FracInt(CallSearch.bestX), call.locals.scale),
     y |-> FracMul(FracInt(CallSearch.bestY), call.locals.scale)]

\* C23 as stated: without a scored sample alignFrames returns the offset (0, 0), and on
\* an axis whose curvature denominator is 0 the returned component is the integer best
\* offset times the scale.
C23_AsStated ==
    AlignReturned =>
        /\ ~call.locals.counted => (call.out.x = Zero /\ call.out.y = Zero)
        /\ FlatX => call.out.x = Unrefined.x
        /\ FlatY => call.out.y = Unrefined.y

\* C23 (amended): without a scored sample alignFrames returns the offset (0, 0) and
\* the confidence 0; on an axis whose curvature denominator is 0 the component before
\* the deadband is the integer best offset times the scale, and the returned component
\* is that one unless the deadband sets both components to 0; no component has a zero
\* denominator.
C23_FallsBackToInteger ==
    AlignReturned =>
        /\ ~call.locals.counted =>
              (call.out.x = Zero /\ call.out.y = Zero /\ call.out.confidence = Zero)
        /\ FlatX => /\ RawOffset.x = Unrefined.x
                    /\ \/ call.out.x = Unrefined.x
                       \/ InDeadband(RawOffset.x, RawOffset.y) /\ call.out.x = Zero
        /\ FlatY => /\ RawOffset.y = Unrefined.y
                    /\ \/ call.out.y = Unrefined.y
                       \/ InDeadband(RawOffset.x, RawOffset.y) /\ call.out.y = Zero
        /\ call.out.x.den > 0 /\ call.out.y.den > 0 /\ call.out.confidence.den > 0

\* the best offset lies on the edge of the window, its missing neighbour is replaced
\* by v0, the x axis is not refined and the y axis is; the offset is returned
C23_Witness ==
    /\ AlignReturned /\ call.locals.counted
    /\ CallSearch.bestX = -SEARCH_WINDOW
    /\ FlatX /\ ~FlatY
    /\ CallSearch.minDiff > 0
    /\ call.out.x = Unrefined.x /\ call.out.x # Zero

\* the reads of the scoring loops over a width x height grid: the position (x, y)
\* read from edgePrev and the position (x + dx, y + dy) read from edgeCurr
Reads(width, height) ==
    LET xs == ScoredPositions(width)
        ys == ScoredPositions(height)
    IN  { [idx1 |-> ys[j] * width + xs[i],
           idx2 |-> (ys[j] + ScanOrder[k][2]) * width + (xs[i] + ScanOrder[k][1]),
           col1 |-> xs[i], row1 |-> ys[j],
           col2 |-> xs[i] + ScanOrder[k][1], row2 |-> ys[j] + ScanOrder[k][2]]
          : i \in DOMAIN xs, j \in DOMAIN ys, k \in DOMAIN ScanOrder }

\* C22 as stated: every read of the block search, at every offset of the window and
\* every sampled position, addresses a pixel of its edge map: the column is from 0 to
\* width - 1, the row from 0 to the map's height - 1, and the index lies inside the
\* buffer, whatever the downsampled heights of the two frames.
C22_AsStated ==
    AlignReturned =>
        \A r \in Reads(call.locals.width, call.locals.height) :
            /\ 0 <= r.col1 /\ r.col1 < call.locals.width
            /\ 0 <= r.row1 /\ r.row1 < call.prev.small.height
            /\ 0 <= r.idx1 /\ r.idx1 < call.locals.edgePrev
            /\ 0 <= r.col2 /\ r.col2 < call.locals.width
            /\ 0 <= r.row2 /\ r.row2 < call.curr.small.height
            /\ 0 <= r.idx2 /\ r.idx2 < call.locals.edgeCurr

---------------------------------------------------------------------------
(* The first layer of a stack *)

\* the largest difference between the red levels of a frame
Contrast(frame) ==
    LET reds == {frame.data[i][1] : i \in 1..Len(frame.data)}
    IN  CHOOSE c \in 0..255 : /\ \E a \in reds, b \in reds : a - b = c
                              /\ \A a \in reds, b \in reds : a - b <= c

\* an empty accumulator, a frame of its size whose contrast is above the threshold 20,
\* no offset
C13_Premise ==
    /\ CallReturned
    /\ call.acc = EmptyAcc(CallWidth, CallHeight)
    /\ Dims(call.new) = << CallWidth, CallHeight >>
    /\ call.offsetX = 0 /\ call.offsetY = 0
    /\ call.threshold = 20
    /\ Contrast(call.new) > call.threshold

\* C13: merging a checkerboard whose contrast is above the threshold 20 into an empty
\* accumulator of the same size gives, at every interior pixel, the sharpness that
\* computeSharpnessMap gives for the checkerboard (for every cell size, sensitivity and
\* debug flag).
C13_CheckerboardSharpness ==
    C13_Premise =>
        \A t \in InteriorTargets : OutSharp(t) = NewSharpnessOfCall[t + 1]

\* a board with interior pixels on the edge of a cell, on a corner and inside a cell
C13_Witness ==
    /\ C13_Premise
    /\ \E t \in InteriorTargets : OutSharp(t) = 0
    /\ \E t \in InteriorTargets, u \in InteriorTargets :
          OutSharp(t) > 0 /\ OutSharp(u) > OutSharp(t)

---------------------------------------------------------------------------
(* Fingerprints, and calls outside the contract *)

Compared == call.phase = "compared"

One == FracInt(1)

\* C16: for two fingerprints of the same length (at least one byte, as getFingerprint
\* makes them) the similarity is a number from 0 to 1, and it is exactly 1 when the two
\* are the same fingerprint.
C16_SimilarityRange ==
    (Compared /\ Len(call.fp1) = Len(call.fp2) /\ Len(call.fp1) > 0) =>
        /\ call.out # NaNSimilarity
        /\ 0 <= call.out.num /\ call.out.num <= call.out.den
        /\ call.fp1 = call.fp2 => call.out = One

\* fingerprints that differ in every byte, one way and the other
C16_Witness ==
    /\ Compared
    /\ Len(call.fp1) = MaxFingerprint /\ Len(call.fp2) = MaxFingerprint
    /\ call.fp1[1] < call.fp2[1] /\ call.fp1[2] > call.fp2[2]
    /\ call.out # NaNSimilarity /\ call.out # One /\ call.out.num > 0

\* a frame that is not of the accumulator's size; fingerprints of different lengths
PreconditionViolated ==
    \/ call.phase = "returned" /\ Dims(call.new) # Dims(call.acc.pixels)
    \/ call.phase = "compared" /\ Len(call.fp1) # Len(call.fp2)

\* C17: a call of mergeFocusStack with a frame that is not of the accumulator's size,
\* or of getFingerprintSimilarity with fingerprints of different lengths, does not
\* return a value.
C17_AsStated == ~ PreconditionViolated

---------------------------------------------------------------------------
(* Buffers *)

\* a step that is a merge
HeapMergeStep ==
    call.phase = "heap" /\ call'.phase = "heap" /\ call'.merges = call.merges + 1

\* C18: a merge leaves every buffer that existed before it as it was (the input
\* accumulator's pixels and sharpness map, the new frame, earlier accumulators and the
\* other captured frames), and the two buffers of its result are new ones, distinct from
\* each other.
C18_InputsUntouched ==
    [][HeapMergeStep =>
          /\ \A id \in 1..Len(call.heap) : call'.heap[id] = call.heap[id]
          /\ call'.acc.pixels \notin 1..Len(call.heap)
          /\ call'.acc.sharpness \notin 1..Len(call.heap)
          /\ call'.acc.pixels # call'.acc.sharpness]_vars

\* after the last of the merges the accumulator differs from the first one and from
\* the frames
C18_Witness ==
    /\ call.phase = "heap"
    /\ call.merges = MaxMerges
    /\ call.heap[call.acc.pixels] # call.heap[1]
    /\ \A f \in call.frames : call.heap[call.acc.pixels] # call.heap[f]
    /\ call.heap[call.acc.sharpness] # call.heap[2]

---------------------------------------------------------------------------
(* Resets and the capture loop *)

\* C19: whenever the depth counter is 0 (at the start and after every reset: the CLEAR
\* button leaves the counter alone, the right click and the reset of the 3D view set it
\* to 0) there is no accumulator.
C19_AsStated == currentDepth = 0 => accumulatorRef = NoAcc

\* C20: once a frame has been handled, whether alignFrames threw on it or not, the next
\* call of processFrame is requested and the previous-frame reference is that frame.
C20_AsStated ==
    currentImageData # NoFrame =>
        frameRequested /\ lastImageDataRef = currentImageData

---------------------------------------------------------------------------
(* The busy flag of the stack view *)

\* C29 as stated: every performStacking that has set isProcessing to true has set it
\* back to false when it returns, on the path that makes the first layer, on the path
\* that aligns and merges, and on the path that finds no 2d context; performStacking
\* alone writes the flag, so between two actions it is false.
C29_AsStated == ~isProcessing

---------------------------------------------------------------------------
(* The accumulator of the stack view *)

\* C26: whatever stack actions were taken since the accumulator was empty, with any
\* frames, offsets, sensitivity, threshold and debug flag, and with the sliders moved
\* in between: every pixel of the accumulator has the alpha 0 or 255, and it has the
\* alpha 0 exactly when its stored sharpness is 0.
C26_AlphaMatchesSharpness ==
    accumulatorRef # NoAcc =>
        \A i \in 1..Len(accumulatorRef.sharpness) :
            /\ accumulatorRef.pixels.data[i][4] \in {0, 255}
            /\ accumulatorRef.pixels.data[i][4] = 0 <=> accumulatorRef.sharpness[i] = 0

\* a second layer merged at a non-zero offset under a raised threshold, in debug mode,
\* has left transparent and opaque pixels
C26_Witness ==
    /\ accumulatorRef # NoAcc
    /\ currentDepth = 2 /\ stack.path = "merge" /\ stack.offset # << 0, 0 >>
    /\ threshold > 0 /\ debugMode
    /\ \E i \in 1..Len(accumulatorRef.sharpness) : accumulatorRef.pixels.data[i][4] = 0
    /\ \E i \in 1..Len(accumulatorRef.sharpness) : accumulatorRef.pixels.data[i][4] = 255

---------------------------------------------------------------------------
(* A series of merges under constant settings *)

InSeries == call.phase = "series"

\* C27: through a series of merges into an accumulator that started blank, under a
\* threshold and a sensitivity that are at least 0 and do not change, the stored
\* sharpness of no pixel goes down from one merge to the next, whatever the frames,
\* the offsets and the debug flags; and each stored sharpness is 0 or above the
\* threshold.
C27_SharpnessNeverDrops ==
    InSeries =>
        /\ \A k \in 1..(Len(call.maps) - 1) : \A i \in 1..Len(call.maps[k]) :
              call.maps[k + 1][i] >= call.maps[k][i]
        /\ \A k \in 1..Len(call.maps) : \A i \in 1..Len(call.maps[k]) :
              call.maps[k][i] = 0 \/ IsSharp(call.maps[k][i], call.threshold)

\* a pixel became sharp in one merge and sharper in the next, under a sensitivity and
\* a threshold above 0
C27_Witness ==
    /\ InSeries /\ Len(call.maps) >= 3
    /\ call.sensitivity > 0 /\ call.threshold > 0
    /\ \E i \in 1..Len(call.maps[1]) :
          /\ call.maps[2][i] > call.maps[1][i]
          /\ call.maps[3][i] > call.maps[2][i]

---------------------------------------------------------------------------
(* The offset of a manual stack action *)

Stacked == call.phase = "stacked"

\* 100 pixels
OffsetLimit == 100 * OffsetDen

\* C25: the offset passed to mergeFocusStack by a stack action is (0, 0) whenever the
\* confidence of the alignment is at most 0.5 or one of its components is above 100
\* pixels in absolute value, and is the alignment's offset otherwise; so both components
\* of every offset passed are within 100 pixels; the merge is made in both cases.
C25_StackOffsetPolicy ==
    Stacked =>
        /\ IF \/ call.alignment.confidence <= 50
              \/ Abs(call.alignment.x) > OffsetLimit
              \/ Abs(call.alignment.y) > OffsetLimit
           THEN call.offset = << 0, 0 >>
           ELSE call.offset = << call.alignment.x, call.alignment.y >>
        /\ Abs(call.offset[1]) <= OffsetLimit /\ Abs(call.offset[2]) <= OffsetLimit
        /\ call.out.pixels =
              mergeFocusStack(call.acc.pixels, call.acc.sharpness, call.new,
                              call.offset[1], call.offset[2], 5, 20, FALSE).imageData

\* an alignment of confidence 0.5 with a small offset was set aside, and the merge at
\* (0, 0) changed the accumulator
C25_Witness ==
    /\ Stacked
    /\ call.alignment.confidence = 50
    /\ call.alignment.x = OffsetDen /\ call.alignment.y = OffsetDen
    /\ call.offset = << 0, 0 >>
    /\ call.out.pixels # call.acc.pixels

---------------------------------------------------------------------------
(* The tracking loop *)

Tracking == call.phase = "tracking"

\* C24: the stage position is the negated sum of the offsets of the pairs of frames
\* aligned with a confidence above 0.6 since the last reset; such a pair sets the
\* relative offset to its offset; a pair of confidence at most 0.6 leaves the stage
\* where it is and sets the relative offset to (0, 0); the first frame changes neither;
\* and in each of these cases the frame just handled is the reference of the next pair.
C24_StageFollowsAlignments ==
    Tracking =>
        /\ stagePosRef = << -call.sum[1], -call.sum[2] >>
        /\ call.path = "aligned" =>
              /\ relativeOffset = IF call.alignment.confidence > 60
                                  THEN << call.alignment.x, call.alignment.y >>
                                  ELSE << 0, 0 >>
              /\ lastImageDataRef = currentImageData
        /\ call.path = "first" =>
              /\ stagePosRef = << 0, 0 >> /\ relativeOffset = << 0, 0 >>
              /\ lastImageDataRef = currentImageData
        /\ call.path = "reset" => relativeOffset = << 0, 0 >>

\* the stage has moved, and a pair of confidence 0.6 with an offset has left it there
C24_Witness ==
    /\ Tracking /\ call.path = "aligned"
    /\ call.alignment.confidence = 60
    /\ call.alignment.x # 0
    /\ stagePosRef # << 0, 0 >>
    /\ stagePosRef[2] # 0
    /\ relativeOffset = << 0, 0 >>

---------------------------------------------------------------------------
(* The classification of a captured frame *)

\* C28 as stated: a capture that handleFrameCapture accepts sets isAnalyzing, and
\* isAnalyzing is false again later, whatever analyzeMicroscopeFrame comes back with:
\* entities, an empty list, null, a failed request, or an object without entities.
C28_AsStated == isAnalyzing ~> ~isAnalyzing

=============================================================================
